---- MODULE Spec2Model ----
(***************************************************************************)
(* A model of the convey-rs save-file decoder (src/src/lib.rs).            *)
(*                                                                         *)
(* The decoder is a sequential reader over an io::Cursor.  A stream is a   *)
(* sequence of bytes (0..255); a position is the 0-based cursor offset, so *)
(* the byte at position p is stream[p + 1].  Every read_* method of the    *)
(* trait ReadSaveFileBytes is an operator from (stream, position, ...) to  *)
(* a result record                                                         *)
(*      [ok, pos, val, err]                                                *)
(* holding the position the cursor is left at, the decoded value and the   *)
(* ParseError.  Strings are sequences of Unicode scalar values, structs    *)
(* are records, enum values are records [kind, v].  The loops of           *)
(* read_file, read_levels, read_level and read_object are actions.         *)
(***************************************************************************)
EXTENDS Integers, Sequences, FiniteSets, TLC

(***************************************************************************)
(* Bounds of the model.                                                    *)
(***************************************************************************)
MaxStrLen == 2      \* most characters written in the string round trip
MaxStrings == 2     \* most strings written one after the other
MaxGap == 6         \* most bytes declared beyond the end of a property list
MaxCount == 2       \* largest declared element or pair count of a container
MaxObjects == 2     \* most object headers of a level
MaxChunks == 2      \* most chunks of a file
MaxLevels == 2      \* most levels of a file
Huge == 536870912   \* 2^29: the integers read are kept within -Huge .. Huge

(***************************************************************************)
(* Program constants.                                                      *)
(***************************************************************************)
MIN_SAVE_FILE_VERSION == 42

(***************************************************************************)
(* errors.rs: ParseError, a variant and what it carries.  Result<T> is     *)
(* Ok(value) or Err(error), with the cursor left at p.                     *)
(***************************************************************************)
ParseError(kind, arg) == [kind |-> kind, arg |-> arg]
NoErr == ParseError("none", <<>>)

Ok(p, v) == [ok |-> TRUE, pos |-> p, val |-> v, err |-> NoErr]
Err(p, e) == [ok |-> FALSE, pos |-> p, val |-> <<>>, err |-> e]

\* Option<T>
None == [some |-> FALSE]
Some(v) == [some |-> TRUE, v |-> v]

(***************************************************************************)
(* The byte reader: io::Cursor + byteorder, little-endian.                 *)
(***************************************************************************)
\* n more bytes can be read at position p; a read into an empty buffer
\* succeeds wherever the cursor is, also beyond the end
Avail(s, p, n) == n = 0 \/ p + n <= Len(s)

\* the n bytes at position p
Bytes(s, p, n) == SubSeq(s, p + 1, p + n)

\* Cursor::read_exact: on a short read the cursor is placed at the end
Eof(s) == Err(Len(s), ParseError("Read", "UnexpectedEof"))

\* Read::read_exact into a buffer of n bytes
ReadExact(s, p, n) == IF Avail(s, p, n) THEN Ok(p + n, Bytes(s, p, n)) ELSE Eof(s)

\* Seek::seek_relative on a Cursor: any position >= 0 is accepted, also
\* beyond the end of the buffer; a negative position is an error
SeekRelative(s, p, n) ==
  IF p + n < 0 THEN Err(p, ParseError("Read", "InvalidInput")) ELSE Ok(p + n, <<>>)

\* the little-endian value of a byte sequence, unsigned and two's
\* complement.  The integers of TLC are narrower than a u32: a value above
\* Huge is kept as Huge and a value below -Huge as -Huge.  Every stream here
\* is far shorter than Huge, so a length, a count or a position beyond it
\* acts as the exact value does.
LEJoin(head, rest) ==
  IF rest >= Huge \div 256 THEN Huge
  ELSE IF rest < -(Huge \div 256) THEN -Huge
  ELSE head + 256 * rest

RECURSIVE LEUnsigned(_)
LEUnsigned(b) ==
  IF b = <<>> THEN 0 ELSE LEJoin(Head(b), LEUnsigned(Tail(b)))

RECURSIVE LESigned(_)
LESigned(b) ==
  IF Len(b) = 1
  THEN (IF b[1] >= 128 THEN b[1] - 256 ELSE b[1])
  ELSE LEJoin(Head(b), LESigned(Tail(b)))

\* ReadBytesExt::read_u8 .. read_i64: an integer of n bytes
ReadInt(s, p, n, signed) ==
  IF ~Avail(s, p, n) THEN Eof(s)
  ELSE IF signed THEN Ok(p + n, LESigned(Bytes(s, p, n)))
  ELSE Ok(p + n, LEUnsigned(Bytes(s, p, n)))

\* ReadBytesExt::read_u16_into: the len code units at position p, read with
\* one read_exact
ReadU16Into(s, p, len) ==
  IF Avail(s, p, 2 * len)
  THEN Ok(p + 2 * len, [i \in 1..len |-> s[p + 2 * i - 1] + 256 * s[p + 2 * i]])
  ELSE Eof(s)

(***************************************************************************)
(* String::from_utf16 and String::from_utf8: Some(string), or None when    *)
(* the input is malformed.                                                 *)
(***************************************************************************)
\* the scalar value c in front of the rest of the string
Push(c, rest) == IF rest.some THEN Some(<<c>> \o rest.v) ELSE rest

\* D800..DBFF is a high surrogate, DC00..DFFF a low one
RECURSIVE DecodeUtf16(_)
DecodeUtf16(u) ==
  IF u = <<>> THEN Some(<<>>)
  ELSE IF u[1] \in 55296..56319
  THEN IF Len(u) >= 2 /\ u[2] \in 56320..57343
       THEN Push(65536 + (u[1] - 55296) * 1024 + (u[2] - 56320),
                 DecodeUtf16(SubSeq(u, 3, Len(u))))
       ELSE None
  ELSE IF u[1] \in 56320..57343 THEN None
  ELSE Push(u[1], DecodeUtf16(Tail(u)))

\* the byte at index i of b, 0 when b is shorter
ByteAt(b, i) == IF Len(b) >= i THEN b[i] ELSE 0

\* the number of bytes of the UTF-8 sequence that starts with the bytes
\* b1 b2 b3 b4, 0 when no well-formed sequence starts with them; 80..BF is
\* a continuation byte
Utf8Width(b1, b2, b3, b4) ==
  IF b1 <= 127 THEN 1
  ELSE IF b1 \in 194..223 THEN (IF b2 \in 128..191 THEN 2 ELSE 0)
  ELSE IF b1 = 224 THEN (IF b2 \in 160..191 /\ b3 \in 128..191 THEN 3 ELSE 0)
  ELSE IF b1 = 237 THEN (IF b2 \in 128..159 /\ b3 \in 128..191 THEN 3 ELSE 0)
  ELSE IF b1 \in 225..239 THEN (IF b2 \in 128..191 /\ b3 \in 128..191 THEN 3 ELSE 0)
  ELSE IF b1 = 240
  THEN (IF b2 \in 144..191 /\ b3 \in 128..191 /\ b4 \in 128..191 THEN 4 ELSE 0)
  ELSE IF b1 \in 241..243
  THEN (IF b2 \in 128..191 /\ b3 \in 128..191 /\ b4 \in 128..191 THEN 4 ELSE 0)
  ELSE IF b1 = 244
  THEN (IF b2 \in 128..143 /\ b3 \in 128..191 /\ b4 \in 128..191 THEN 4 ELSE 0)
  ELSE 0

Utf8Scalar(b, w) ==
  IF w = 1 THEN b[1]
  ELSE IF w = 2 THEN (b[1] - 192) * 64 + (b[2] - 128)
  ELSE IF w = 3 THEN (b[1] - 224) * 4096 + (b[2] - 128) * 64 + (b[3] - 128)
  ELSE (b[1] - 240) * 262144 + (b[2] - 128) * 4096 + (b[3] - 128) * 64 + (b[4] - 128)

\* the string that starts with a sequence of w bytes
RECURSIVE DecodeUtf8(_)
DecodeUtf8Wide(b, w) ==
  IF w = 0 THEN None
  ELSE Push(Utf8Scalar(b, w), DecodeUtf8(SubSeq(b, w + 1, Len(b))))

DecodeUtf8(b) ==
  IF b = <<>> THEN Some(<<>>)
  ELSE DecodeUtf8Wide(b, Utf8Width(b[1], ByteAt(b, 2), ByteAt(b, 3), ByteAt(b, 4)))

\* `String::from_utf8(..)?` and `String::from_utf16(..)?` with the cursor at p
FromUtf(p, string, error) ==
  IF string.some THEN Ok(p, string.v) ELSE Err(p, ParseError(error, <<>>))

\* a string left as it was read, with its NUL
Unpopped(str) == str

\* String::pop: removes the last char, if there is one
Pop(str) == IF str = <<>> THEN str ELSE SubSeq(str, 1, Len(str) - 1)

\* a length taken with its sign
Signed(n) == n

\* i32::abs
Abs(n) == IF n < 0 THEN -n ELSE n

(***************************************************************************)
(* read_hex, read_length_prefixed_string, seek_length_prefixed_string.     *)
(***************************************************************************)
\* `Ok(String::from_utf16(&vec)?)` for the code units read
HexString(vec) ==
  IF ~vec.ok THEN vec ELSE FromUtf(vec.pos, DecodeUtf16(vec.val), "UTF16")

read_hex(s, p, len) == HexString(ReadU16Into(s, p, len))

\* `string.pop()` on the string read
Popped(string) == IF string.ok THEN Ok(string.pos, Pop(string.val)) ELSE string

\* the length is read: the string of that length
LengthPrefixedString(s, len) ==
  IF ~len.ok THEN len
  ELSE IF len.val > 0
  THEN IF Avail(s, len.pos, len.val)
       THEN Popped(FromUtf(len.pos + len.val, DecodeUtf8(Bytes(s, len.pos, len.val)),
                           "UTF8"))
       ELSE Eof(s)
  ELSE IF len.val < 0 THEN Popped(read_hex(s, len.pos, Abs(len.val)))
  ELSE Ok(len.pos, <<>>)

read_length_prefixed_string(s, p) == LengthPrefixedString(s, ReadInt(s, p, 4, TRUE))

\* the length is read: the cursor is moved
SeekString(s, len) ==
  IF ~len.ok THEN len ELSE SeekRelative(s, len.pos, Abs(len.val))

seek_length_prefixed_string(s, p) == SeekString(s, ReadInt(s, p, 4, TRUE))

(***************************************************************************)
(* The string literals of lib.rs and the variant names of property.rs, as  *)
(* sequences of Unicode scalar values.                                     *)
(***************************************************************************)
S ==
  [None |-> <<78, 111, 110, 101>>,  \* "None"
   Property |-> <<80, 114, 111, 112, 101, 114, 116, 121>>,  \* "Property"
   Bool |-> <<66, 111, 111, 108>>,  \* "Bool"
   Int8 |-> <<73, 110, 116, 56>>,  \* "Int8"
   Int |-> <<73, 110, 116>>,  \* "Int"
   UInt32 |-> <<85, 73, 110, 116, 51, 50>>,  \* "UInt32"
   Int64 |-> <<73, 110, 116, 54, 52>>,  \* "Int64"
   UInt64 |-> <<85, 73, 110, 116, 54, 52>>,  \* "UInt64"
   Float |-> <<70, 108, 111, 97, 116>>,  \* "Float"
   Double |-> <<68, 111, 117, 98, 108, 101>>,  \* "Double"
   Str |-> <<83, 116, 114>>,  \* "Str"
   Name |-> <<78, 97, 109, 101>>,  \* "Name"
   String |-> <<83, 116, 114, 105, 110, 103>>,  \* "String"
   Object |-> <<79, 98, 106, 101, 99, 116>>,  \* "Object"
   Interface |-> <<73, 110, 116, 101, 114, 102, 97, 99, 101>>,  \* "Interface"
   Enum |-> <<69, 110, 117, 109>>,  \* "Enum"
   Byte |-> <<66, 121, 116, 101>>,  \* "Byte"
   Text |-> <<84, 101, 120, 116>>,  \* "Text"
   Array |-> <<65, 114, 114, 97, 121>>,  \* "Array"
   Map |-> <<77, 97, 112>>,  \* "Map"
   Set |-> <<83, 101, 116>>,  \* "Set"
   Struct |-> <<83, 116, 114, 117, 99, 116>>,  \* "Struct"
   SoftObject |-> <<83, 111, 102, 116, 79, 98, 106, 101, 99, 116>>,  \* "SoftObject"
   Color |-> <<67, 111, 108, 111, 114>>,  \* "Color"
   LinearColor |-> <<76, 105, 110, 101, 97, 114, 67, 111, 108, 111, 114>>,  \* "LinearColor"
   Vector |-> <<86, 101, 99, 116, 111, 114>>,  \* "Vector"
   Rotator |-> <<82, 111, 116, 97, 116, 111, 114>>,  \* "Rotator"
   Vector2D |-> <<86, 101, 99, 116, 111, 114, 50, 68>>,  \* "Vector2D"
   IntVector4 |-> <<73, 110, 116, 86, 101, 99, 116, 111, 114, 52>>,  \* "IntVector4"
   Quat |-> <<81, 117, 97, 116>>,  \* "Quat"
   Vector4 |-> <<86, 101, 99, 116, 111, 114, 52>>,  \* "Vector4"
   Box |-> <<66, 111, 120>>,  \* "Box"
   RailroadTrackPosition |-> <<82, 97, 105, 108, 114, 111, 97, 100, 84, 114, 97, 99, 107, 80, 111, 115, 105, 116, 105, 111, 110>>,  \* "RailroadTrackPosition"
   TimerHandle |-> <<84, 105, 109, 101, 114, 72, 97, 110, 100, 108, 101>>,  \* "TimerHandle"
   Guid |-> <<71, 117, 105, 100>>,  \* "Guid"
   InventoryItem |-> <<73, 110, 118, 101, 110, 116, 111, 114, 121, 73, 116, 101, 109>>,  \* "InventoryItem"
   FluidBox |-> <<70, 108, 117, 105, 100, 66, 111, 120>>,  \* "FluidBox"
   SlateBrush |-> <<83, 108, 97, 116, 101, 66, 114, 117, 115, 104>>,  \* "SlateBrush"
   DateTime |-> <<68, 97, 116, 101, 84, 105, 109, 101>>,  \* "DateTime"
   FINNetworkTrace |-> <<70, 73, 78, 78, 101, 116, 119, 111, 114, 107, 84, 114, 97, 99, 101>>,  \* "FINNetworkTrace"
   FINLuaProcessorStateStorage |-> <<70, 73, 78, 76, 117, 97, 80, 114, 111, 99, 101, 115, 115, 111, 114, 83, 116, 97, 116, 101, 83, 116, 111, 114, 97, 103, 101>>,  \* "FINLuaProcessorStateStorage"
   FICFrameRange |-> <<70, 73, 67, 70, 114, 97, 109, 101, 82, 97, 110, 103, 101>>,  \* "FICFrameRange"
   IntPoint |-> <<73, 110, 116, 80, 111, 105, 110, 116>>,  \* "IntPoint"
   FINGPUT1BufferPixel |-> <<70, 73, 78, 71, 80, 85, 84, 49, 66, 117, 102, 102, 101, 114, 80, 105, 120, 101, 108>>,  \* "FINGPUT1BufferPixel"
   mFogOfWarRawData |-> <<109, 70, 111, 103, 79, 102, 87, 97, 114, 82, 97, 119, 68, 97, 116, 97>>,  \* "mFogOfWarRawData"
   Destroyed_Foliage_Transform |-> <<68, 101, 115, 116, 114, 111, 121, 101, 100, 95, 70, 111, 108, 105, 97, 103, 101, 95, 84, 114, 97, 110, 115, 102, 111, 114, 109>>,  \* "Destroyed_Foliage_Transform"
   mSaveData |-> <<109, 83, 97, 118, 101, 68, 97, 116, 97>>,  \* "mSaveData"
   mUnresolvedSaveData |-> <<109, 85, 110, 114, 101, 115, 111, 108, 118, 101, 100, 83, 97, 118, 101, 68, 97, 116, 97>>,  \* "mUnresolvedSaveData"
   BGU_Subsystem_C |-> <<47, 66, 117, 105, 108, 100, 71, 117, 110, 85, 116, 105, 108, 105, 116, 105, 101, 115, 47, 66, 71, 85, 95, 83, 117, 98, 115, 121, 115, 116, 101, 109, 46, 66, 71, 85, 95, 83, 117, 98, 115, 121, 115, 116, 101, 109, 95, 67>>,  \* "/BuildGunUtilities/BGU_Subsystem.BGU_Subsystem_C"
   LBBalancerData |-> <<76, 66, 66, 97, 108, 97, 110, 99, 101, 114, 68, 97, 116, 97>>,  \* "LBBalancerData"
   Sub_SR_C |-> <<47, 83, 116, 111, 114, 97, 103, 101, 83, 116, 97, 116, 115, 82, 111, 111, 109, 47, 83, 117, 98, 95, 83, 82, 46, 83, 117, 98, 95, 83, 82, 95, 67>>,  \* "/StorageStatsRoom/Sub_SR.Sub_SR_C"
   FGFoilageRemoval |-> <<47, 83, 99, 114, 105, 112, 116, 47, 70, 97, 99, 116, 111, 114, 121, 71, 97, 109, 101, 46, 70, 71, 70, 111, 105, 108, 97, 103, 101, 82, 101, 109, 111, 118, 97, 108>>,  \* "/Script/FactoryGame.FGFoilageRemoval"
   SpawnData |-> <<83, 112, 97, 119, 110, 68, 97, 116, 97>>,  \* "SpawnData"
   FactoryGame_FG |-> <<47, 83, 99, 114, 105, 112, 116, 47, 70, 97, 99, 116, 111, 114, 121, 71, 97, 109, 101, 46, 70, 71>>,  \* "/Script/FactoryGame.FG"
   Level_ |-> <<76, 101, 118, 101, 108, 32>>,  \* "Level "
   Script_PrefabSignData |-> <<47, 83, 99, 114, 105, 112, 116, 47, 70, 97, 99, 116, 111, 114, 121, 71, 97, 109, 101, 46, 80, 114, 101, 102, 97, 98, 83, 105, 103, 110, 68, 97, 116, 97>>,  \* "/Script/FactoryGame.PrefabSignData"
   Script_FINInternetCardHttpRequestFuture |-> <<47, 83, 99, 114, 105, 112, 116, 47, 70, 105, 99, 115, 73, 116, 78, 101, 116, 119, 111, 114, 107, 115, 46, 70, 73, 78, 73, 110, 116, 101, 114, 110, 101, 116, 67, 97, 114, 100, 72, 116, 116, 112, 82, 101, 113, 117, 101, 115, 116, 70, 117, 116, 117, 114, 101>>,  \* "/Script/FicsItNetworks.FINInternetCardHttpRequestFuture"
   Script_InventoryItem |-> <<47, 83, 99, 114, 105, 112, 116, 47, 70, 97, 99, 116, 111, 114, 121, 71, 97, 109, 101, 46, 73, 110, 118, 101, 110, 116, 111, 114, 121, 73, 116, 101, 109>>,  \* "/Script/FactoryGame.InventoryItem"
   Script_Vector |-> <<47, 83, 99, 114, 105, 112, 116, 47, 67, 111, 114, 101, 85, 79, 98, 106, 101, 99, 116, 46, 86, 101, 99, 116, 111, 114>>,  \* "/Script/CoreUObject.Vector"
   Script_LinearColor |-> <<47, 83, 99, 114, 105, 112, 116, 47, 67, 111, 114, 101, 85, 79, 98, 106, 101, 99, 116, 46, 76, 105, 110, 101, 97, 114, 67, 111, 108, 111, 114>>,  \* "/Script/CoreUObject.LinearColor"
   Script_InventoryStack |-> <<47, 83, 99, 114, 105, 112, 116, 47, 70, 97, 99, 116, 111, 114, 121, 71, 97, 109, 101, 46, 73, 110, 118, 101, 110, 116, 111, 114, 121, 83, 116, 97, 99, 107>>,  \* "/Script/FactoryGame.InventoryStack"
   Script_ItemAmount |-> <<47, 83, 99, 114, 105, 112, 116, 47, 70, 97, 99, 116, 111, 114, 121, 71, 97, 109, 101, 46, 73, 116, 101, 109, 65, 109, 111, 117, 110, 116>>,  \* "/Script/FactoryGame.ItemAmount"
   Script_FINTrackGraph |-> <<47, 83, 99, 114, 105, 112, 116, 47, 70, 105, 99, 115, 73, 116, 78, 101, 116, 119, 111, 114, 107, 115, 46, 70, 73, 78, 84, 114, 97, 99, 107, 71, 114, 97, 112, 104>>,  \* "/Script/FicsItNetworks.FINTrackGraph"
   Script_FINGPUT1Buffer |-> <<47, 83, 99, 114, 105, 112, 116, 47, 70, 105, 99, 115, 73, 116, 78, 101, 116, 119, 111, 114, 107, 115, 46, 70, 73, 78, 71, 80, 85, 84, 49, 66, 117, 102, 102, 101, 114>>]  \* "/Script/FicsItNetworks.FINGPUT1Buffer"

(***************************************************************************)
(* str::starts_with and str::replace.                                      *)
(***************************************************************************)
StartsWith(str, prefix) ==
  Len(str) >= Len(prefix) /\ SubSeq(str, 1, Len(prefix)) = prefix

\* every non-overlapping occurrence of `from`, left to right, becomes `to`
RECURSIVE Replace(_, _, _)
Replace(str, from, to) ==
  IF str = <<>> THEN <<>>
  ELSE IF StartsWith(str, from)
  THEN to \o Replace(SubSeq(str, Len(from) + 1, Len(str)), from, to)
  ELSE <<Head(str)>> \o Replace(Tail(str), from, to)

\* `let r#type = r#type.replace("Property", "")` on the string read
Stripped(type) ==
  IF type.ok THEN Ok(type.pos, Replace(type.val, S.Property, <<>>)) ELSE type

(***************************************************************************)
(* A run of reads chained with `?`.  A method that reads the fields of a   *)
(* struct one after the other is written as its schema: the entries        *)
(*      <<field, kind, arguments..>>                                       *)
(* in the order of the reads.  ReadRecord makes the reads of a schema and  *)
(* returns the first error, or the record of the fields; ReadField makes   *)
(* the read of one entry.  An entry named "" is read and dropped, an entry *)
(* named "*" returns the whole record.                                     *)
(***************************************************************************)
\* the record with the field set
Put(rec, field, v) == [k \in DOMAIN rec \cup {field} |-> IF k = field THEN v ELSE rec[k]]

\* the value v in front of the values read after it
Cons(v, rest) == IF ~rest.ok THEN rest ELSE Ok(rest.pos, <<v>> \o rest.val)

\* a decoded value as the variant `kind` of its enum
Tag(kind, r) == IF r.ok THEN Ok(r.pos, [kind |-> kind, v |-> r.val]) ELSE r

\* `Some(<read>?)`
Optional(r) == IF r.ok THEN Ok(r.pos, Some(r.val)) ELSE r

\* the value v in place of a value that was read and not stored
Ignore(v, r) == IF r.ok THEN Ok(r.pos, v) ELSE r

\* a HashMap of the one key with the value read
Inserted(key, r) == IF r.ok THEN Ok(r.pos, Put(<<>>, key, r.val)) ELSE r

\* one field of the record read
Field(r, field) == IF r.ok THEN Ok(r.pos, r.val[field]) ELSE r

RECURSIVE ReadField(_, _, _, _)

RECURSIVE ReadRecord(_, _, _, _)
ReadRecordNext(schema, s, rec, r) ==
  IF ~r.ok THEN r
  ELSE ReadRecord(Tail(schema), s, r.pos,
                  CASE Head(schema)[1] = "" -> rec
                    [] Head(schema)[1] = "*" -> r.val
                    [] OTHER -> Put(rec, Head(schema)[1], r.val))

ReadRecord(schema, s, p, rec) ==
  IF schema = <<>> THEN Ok(p, rec)
  ELSE ReadRecordNext(schema, s, rec, ReadField(Head(schema), s, p, rec))

\* `for _ in 0..n { <vec>.push(<read of the entry e>) }`
RECURSIVE ReadMany(_, _, _, _, _)
ReadManyNext(e, s, n, rec, r) ==
  IF ~r.ok THEN r ELSE Cons(r.val, ReadMany(e, s, r.pos, n - 1, rec))

ReadMany(e, s, p, n, rec) ==
  IF n <= 0 THEN Ok(p, <<>>) ELSE ReadManyNext(e, s, n, rec, ReadField(e, s, p, rec))

\* i32 division, which truncates toward zero
Quotient(n, d) == IF n >= 0 THEN n \div d ELSE -((-n) \div d)

\* `match parent_type { Some(t) => t, None => &String::from("") }`
ParentTypeOrEmpty(parent_type) == IF parent_type.some THEN parent_type.v ELSE <<>>

(***************************************************************************)
(* The quaternions, vectors and colors.                                    *)
(***************************************************************************)
\* the fields, all of one kind
Uniform(fields, kind) == [i \in DOMAIN fields |-> <<fields[i], kind>>]

read_quaternion(s, p) == ReadRecord(Uniform(<<"x", "y", "z", "w">>, "f32"), s, p, <<>>)
read_quaternion_double(s, p) ==
  ReadRecord(Uniform(<<"x", "y", "z", "w">>, "f64"), s, p, <<>>)
read_vector2d_double(s, p) == ReadRecord(Uniform(<<"x", "y">>, "f64"), s, p, <<>>)
read_vector2d_int(s, p) == ReadRecord(Uniform(<<"x", "y">>, "i32"), s, p, <<>>)
read_vector(s, p) == ReadRecord(Uniform(<<"x", "y", "z">>, "f32"), s, p, <<>>)
read_vector_double(s, p) == ReadRecord(Uniform(<<"x", "y", "z">>, "f64"), s, p, <<>>)
read_vector_int(s, p) == ReadRecord(Uniform(<<"x", "y", "z">>, "i32"), s, p, <<>>)
read_vector4_double(s, p) ==
  ReadRecord(Uniform(<<"a", "b", "c", "d">>, "f64"), s, p, <<>>)
read_vector4_int(s, p) == ReadRecord(Uniform(<<"a", "b", "c", "d">>, "i32"), s, p, <<>>)
read_color(s, p) ==
  ReadRecord(Uniform(<<"red", "green", "blue", "alpha">>, "f32"), s, p, <<>>)
read_color_byte(s, p) ==
  ReadRecord(Uniform(<<"red", "green", "blue", "alpha">>, "u8"), s, p, <<>>)

(***************************************************************************)
(* read_header, read_chunk, read_partitions.                               *)
(***************************************************************************)
read_header(s, p) ==
  ReadRecord(<< <<"save_header_version", "i32">>, <<"save_file_version", "i32">>,
                <<"build_version", "i32">>, <<"map_name", "str">>,
                <<"map_options", "str">>, <<"session_name", "str">>,
                <<"played_seconds", "i32">>, <<"save_timestamp", "i64">>,
                <<"session_visibility", "i8">>, <<"editor_object_version", "i32">>,
                <<"mod_metadata", "str">>, <<"mod_flags", "i32">>,
                <<"save_identifier", "str">>, <<"is_partitioned_world", "i32">>,
                <<"saved_data_hash", "hex", 10>>, <<"is_creative_mode_enabled", "i32">> >>,
             s, p, <<>>)

\* the reads of read_chunk, with the padding behind the size of the chunk
ChunkSchema(padding) ==
  << <<"", "skip", 4>>, <<"", "skip", 4>>, <<"", "skip", 4>>, <<"", "skip", 5>>,
     <<"current_chunk_size", "u32">>, <<"", "skip", padding>>,
     <<"chunk_bytes", "bytes", "current_chunk_size">> >>

\* a chunk with a padding of 20 bytes behind its size
read_chunk_short_padding(s, p) ==
  Field(ReadRecord(ChunkSchema(20), s, p, <<>>), "chunk_bytes")

\* the value is the compressed body of the chunk
read_chunk(s, p) == Field(ReadRecord(ChunkSchema(28), s, p, <<>>), "chunk_bytes")

\* Partition::default()
PartitionDefault == [unk_num_1 |-> 0, unk_num_2 |-> 0, levels |-> <<>>]

\* `partitions.partitions.insert(key, Partition::default())` for every key
\* read: a HashMap is a function from its keys, and the partition that was
\* decoded is dropped
PartitionsOf(r) ==
  IF ~r.ok THEN r
  ELSE Ok(r.pos,
          [r.val EXCEPT !.partitions =
             [key \in {r.val.partitions[i].key : i \in DOMAIN r.val.partitions}
                |-> PartitionDefault]])

\* the reads of read_partitions, with the outer loop `for _ in first..num_partitions`
PartitionsSchema(first) ==
  << <<"num_partitions", "i32">>, <<"unk_str_1", "str">>,
     <<"unk_num_1", "i64">>, <<"unk_num_2", "i32">>,
     <<"unk_str_2", "str">>, <<"unk_num_3", "i32">>,
     <<"partitions", "for", "num_partitions", -first,
       <<"", "record",
         << <<"key", "str">>, <<"unk_num_1", "i32">>,
            <<"unk_num_2", "i32">>, <<"num_levels", "i32">>,
            <<"levels", "for", "num_levels", 0,
              <<"", "record", << <<"level_key", "str">>,
                                 <<"level_value", "u32">> >> >> >> >> >> >> >>

\* the partitions with an outer loop `for _ in 0..num_partitions`
read_partitions_from_zero(s, p) == PartitionsOf(ReadRecord(PartitionsSchema(0), s, p, <<>>))

\* the outer loop is `for _ in 1..num_partitions`
read_partitions(s, p) == PartitionsOf(ReadRecord(PartitionsSchema(1), s, p, <<>>))

(***************************************************************************)
(* save.rs: ObjectReferrable and its four implementations, and             *)
(* read_object_reference; the value is the object after the mutation.      *)
(***************************************************************************)
ObjectReferenceDefault == [level_name |-> <<>>, path_name |-> <<>>]

set_level_name(impl, object, level_name) ==
  CASE impl = "ObjectReference" -> [object EXCEPT !.level_name = level_name]
    [] impl = "ComponentHeader" -> [object EXCEPT !.root_object = Some(level_name)]
    [] impl = "ActorHeader" -> [object EXCEPT !.root_object = Some(level_name)]
    [] impl = "ActorObject" -> [object EXCEPT !.parent_object_root = level_name]

set_path_name(impl, object, path_name) ==
  CASE impl = "ObjectReference" -> [object EXCEPT !.path_name = path_name]
    [] impl = "ComponentHeader" -> [object EXCEPT !.instance_name = path_name]
    [] impl = "ActorHeader" -> [object EXCEPT !.instance_name = path_name]
    [] impl = "ActorObject" -> [object EXCEPT !.parent_object_name = path_name]

\* the level name stored whatever the map name is
StoreLevelNameAlways(impl, object, level_name, map_name) ==
  set_level_name(impl, object, level_name)

\* `if &level_name != map_name { object.set_level_name(level_name) }`
StoreLevelName(impl, object, level_name, map_name) ==
  IF level_name # map_name THEN set_level_name(impl, object, level_name) ELSE object

\* the two names were read
ObjectReferenceOf(names, impl, object, map_name) ==
  IF ~names.ok THEN names
  ELSE Ok(names.pos,
          set_path_name(impl,
                        StoreLevelName(impl, object, names.val.level_name, map_name),
                        names.val.path_name))

read_object_reference(s, p, impl, object, map_name) ==
  ObjectReferenceOf(ReadRecord(<< <<"level_name", "str">>, <<"path_name", "str">> >>,
                               s, p, <<>>),
                    impl, object, map_name)

(***************************************************************************)
(* read_component_header, read_actor_header, read_level_object_header.     *)
(***************************************************************************)
ComponentHeaderDefault ==
  [type_path |-> <<>>, root_object |-> None, instance_name |-> <<>>,
   parent_actor_name |-> <<>>]

ActorHeaderDefault ==
  [type_path |-> <<>>, root_object |-> None, instance_name |-> <<>>,
   needs_transform |-> 0, rotation |-> <<>>, position |-> <<>>, scale |-> <<>>,
   was_placed_in_level |-> 0]

read_component_header(s, p, map_name) ==
  ReadRecord(<< <<"type_path", "str">>,
                <<"*", "object_reference", "ComponentHeader", map_name>>,
                <<"parent_actor_name", "str">> >>,
             s, p, ComponentHeaderDefault)

read_actor_header(s, p, map_name) ==
  ReadRecord(<< <<"type_path", "str">>,
                <<"*", "object_reference", "ActorHeader", map_name>>,
                <<"needs_transform", "i32">>, <<"rotation", "quaternion">>,
                <<"position", "vector">>, <<"scale", "vector">>,
                <<"was_placed_in_level", "i32">> >>,
             s, p, ActorHeaderDefault)

\* every value but 1 taken as the type of a component
ComponentUnlessActor(value) == IF value = 1 THEN Some("Actor") ELSE Some("Component")

\* save.rs: ObjectType::from_i32
ObjectType_from_i32(value) ==
  IF value = 0 THEN Some("Component") ELSE IF value = 1 THEN Some("Actor") ELSE None

\* the header of the type read: an ObjectHeader is [kind, v]
ObjectHeaderOf(s, object_type, map_name) ==
  IF ~object_type.ok THEN object_type
  ELSE IF ~ObjectType_from_i32(object_type.val).some
  THEN Err(object_type.pos, ParseError("UnknownObject", object_type.val))
  ELSE IF ObjectType_from_i32(object_type.val).v = "Component"
  THEN Tag("Component", read_component_header(s, object_type.pos, map_name))
  ELSE Tag("Actor", read_actor_header(s, object_type.pos, map_name))

read_level_object_header(s, p, map_name) ==
  ObjectHeaderOf(s, ReadInt(s, p, 4, TRUE), map_name)

\* save.rs: ObjectHeader::get_type_path
get_type_path(object_header) == object_header.v.type_path

(***************************************************************************)
(* read_property_guid, read_fin_network_trace, read_fingput1_buffer_pixel. *)
(***************************************************************************)
read_property_guid(s, p) ==
  Field(ReadRecord(<< <<"has_guid", "u8">>,
                      <<"guid", "unless", "has_guid", {0}, <<"", "hex", 16>> >> >>,
                   s, p, <<>>),
        "guid")

read_fin_network_trace(s, p) ==
  ReadRecord(<< <<"level_name", "str">>, <<"path_name", "str">>,
                <<"has_prev", "i32">>,
                <<"prev", "if", "has_prev", {1}, <<"", "trace">> >>,
                <<"has_step", "i32">>,
                <<"step", "if", "has_step", {1}, <<"", "str">> >> >>,
             s, p, <<>>)

read_fingput1_buffer_pixel(s, p) ==
  ReadRecord(<< <<"character", "hex", 2>>, <<"foreground_color", "color">>,
                <<"background_color", "color">> >>,
             s, p, <<>>)

(***************************************************************************)
(* read_text_property.                                                     *)
(***************************************************************************)
\* one turn of `for _ in 0..history.num_arguments`
Argument(build_version) ==
  << <<"name", "str">>, <<"value_type", "u8">>,
     <<"", "expect", "value_type", {4}, "UnknownTextArgumentValueType">>,
     <<"value", "text", build_version>> >>

\* `match property.history_type`: the arm for 1 | 3 decodes an
\* ArgumentHistory and leaves property.value as it is, TextPropertyHistory::None
TextHistory(history_type, build_version) ==
  CASE history_type = 0 ->
         <<"", "variant", "BaseHistory",
           <<"", "record", << <<"namespace", "str">>, <<"key", "str">>,
                              <<"value", "str">> >> >> >>
    [] history_type \in {1, 3} ->
         <<"", "ignore", [kind |-> "None", v |-> <<>>],
           <<"", "record", << <<"source_format", "text", build_version>>,
                              <<"num_arguments", "i32">>,
                              <<"arguments", "for", "num_arguments", 0,
                                <<"", "record", Argument(build_version)>> >> >> >> >>
    [] history_type = 10 ->
         <<"", "variant", "TransformHistory",
           <<"", "record", << <<"source_text", "text", build_version>>,
                              <<"transform_type", "u8">> >> >> >>
    [] history_type = 11 ->
         <<"", "variant", "StringTableEntryHistory",
           <<"", "record", << <<"table_id", "str">>, <<"text_key", "str">> >> >> >>
    [] history_type = 255 ->
         <<"", "variant", "NoneHistory",
           <<"", "record", << <<"has_culture_invariant_string", "i32">>,
                              <<"value", "str">> >> >> >>
    [] OTHER -> <<"", "fail", ParseError("UnknownTextHistoryType", history_type)>>

read_text_property(s, p, build_version) ==
  ReadRecord(<< <<"flags", "i32">>, <<"history_type", "u8">>,
                <<"value", "history", build_version>> >>,
             s, p, <<>>)

(***************************************************************************)
(* read_fin_lua_processor_state_storage.                                   *)
(***************************************************************************)
\* `let value = match class_name.as_str()`, after the three class names
\* that `continue`
LuaStructValue(class_name, parent_type, header) ==
  CASE class_name \in {S.Script_PrefabSignData, S.Script_FINInternetCardHttpRequestFuture,
                       S.Script_InventoryItem} ->
         <<"", "const", [kind |-> "continue", v |-> <<>>]>>
    [] class_name = S.Script_Vector -> <<"", "variant", "Vector", <<"", "vector">> >>
    [] class_name = S.Script_LinearColor ->
         <<"", "variant", "LinearColor", <<"", "color">> >>
    [] class_name = S.Script_InventoryStack ->
         <<"", "variant", "InventoryStack",
           <<"", "record", << <<"unk_str_1", "str">>, <<"unk_str_2", "str">>,
                              <<"unk_int_1", "i32">>, <<"unk_int_2", "i32">>,
                              <<"unk_struct_1", "struct", parent_type, header>>,
                              <<"unk_str_3", "str">> >> >> >>
    [] class_name = S.Script_ItemAmount ->
         <<"", "variant", "ItemAmount",
           <<"", "record", << <<"unk_int_1", "i32">>, <<"unk_str_1", "str">>,
                              <<"unk_int_2", "i32">> >> >> >>
    [] class_name = S.Script_FINTrackGraph ->
         <<"", "variant", "FINTrackGraph",
           <<"", "record", << <<"trace", "trace">>, <<"unk_int_1", "i32">> >> >> >>
    [] class_name = S.Script_FINGPUT1Buffer ->
         <<"", "variant", "FINGPUT1Buffer",
           <<"", "record", << <<"x", "i32">>, <<"y", "i32">>, <<"size", "i32">>,
                              <<"name", "str">>, <<"type", "str">>,
                              <<"length", "i32">>,
                              <<"buffer", "for", "size", 0, <<"", "pixel">> >>,
                              <<"unk_str_1", "hex", 45>> >> >> >>
    [] OTHER ->
         <<"", "fail", ParseError("UnknownLuaProcessorStateStorageStructType", class_name)>>

\* the struct was pushed onto data.structs
Pushed(struct) == struct.value.kind # "continue"

\* the structs that were pushed
StateStorageOf(r) ==
  IF ~r.ok THEN r ELSE Ok(r.pos, [r.val EXCEPT !.structs = SelectSeq(@, Pushed)])

read_fin_lua_processor_state_storage(s, p, header, parent_type) ==
  StateStorageOf(
    ReadRecord(<< <<"num_traces", "i32">>,
                  <<"trace", "for", "num_traces", 0, <<"", "trace">> >>,
                  <<"num_references", "i32">>,
                  <<"reference", "for", "num_references", 0,
                    <<"", "reference", header.map_name>> >>,
                  <<"thread", "str">>, <<"globals", "str">>,
                  <<"num_structs", "i32">>,
                  <<"structs", "for", "num_structs", 0,
                    <<"", "record", << <<"unk_int_1", "i32">>, <<"class_name", "str">>,
                                       <<"value", "lua_value", parent_type, header>> >> >> >> >>,
               s, p, <<>>))

(***************************************************************************)
(* read_array_property_struct and read_array_property.                     *)
(***************************************************************************)
\* `match struct_meta.r#type.as_str()`, for one element
ArrayStructValue(type, header) ==
  CASE type = S.InventoryItem ->
         <<"", "variant", "InventoryItem",
           <<"", "record", << <<"unk_int_1", "i32">>, <<"item_name", "str">>,
                              <<"level_name", "str">>, <<"path_name", "str">> >> >> >>
    [] type = S.Guid -> <<"", "variant", "GUID", <<"", "hex", 16>> >>
    [] type = S.FINNetworkTrace -> <<"", "variant", "FINNetworkTrace", <<"", "trace">> >>
    [] type = S.Vector -> <<"", "variant", "Vector", <<"", "vector_double">> >>
    [] type = S.LinearColor -> <<"", "variant", "LinearColor", <<"", "color">> >>
    [] type = S.FINGPUT1BufferPixel ->
         <<"", "variant", "FINGPUT1BufferPixel", <<"", "pixel">> >>
    [] OTHER -> <<"", "variant", "Properties", <<"", "properties", header, Some(type)>> >>

\* the value is (struct_meta, elements), as [struct_meta, elements]
ArrayStructOf(r) ==
  IF ~r.ok THEN r
  ELSE Ok(r.pos,
          [struct_meta |-> [size_bytes |-> r.val.size_bytes, type |-> r.val.type,
                            guid1 |-> r.val.guid1, guid2 |-> r.val.guid2,
                            guid3 |-> r.val.guid3, guid4 |-> r.val.guid4],
           elements |-> r.val.elements])

read_array_property_struct(s, p, num_elements, header) ==
  ArrayStructOf(
    ReadRecord(<< <<"", "seek_str">>, <<"", "seek_str">>, <<"size_bytes", "i32">>,
                  <<"", "skip", 4>>, <<"type", "str">>, <<"guid1", "i32">>,
                  <<"guid2", "i32">>, <<"guid3", "i32">>, <<"guid4", "i32">>,
                  <<"", "skip", 1>>, <<"num_elements", "const", num_elements>>,
                  <<"elements", "for", "num_elements", 0,
                    <<"", "array_struct_value", header>> >> >>,
               s, p, <<>>))

\* `property.struct_meta = Some(struct_meta)` and the elements pushed as
\* ArrayPropertyValue::Struct
ArrayStructInto(property, r) ==
  IF ~r.ok THEN r
  ELSE Ok(r.pos,
          [property EXCEPT
             !.struct_meta = Some(r.val.struct_meta),
             !.elements = [i \in DOMAIN r.val.elements |->
                             [kind |-> "Struct", v |-> r.val.elements[i]]]])

ArrayPropertyDefault == [type |-> <<>>, struct_meta |-> None, elements |-> <<>>]

\* `match property.r#type.as_str()`: the reads of the elements
ArrayElements(type, property_name, header) ==
  CASE type = S.Bool ->
         << <<"elements", "for", "num_elements", 0,
              <<"", "variant", "Bool", <<"", "u8">> >> >> >>
    [] type = S.Byte ->
         IF property_name = S.mFogOfWarRawData
         THEN << <<"num_groups", "quotient", "num_elements", 4>>,
                 <<"elements", "for", "num_groups", 0,
                   <<"", "variant", "Byte",
                     <<"", "field", "byte",
                       << <<"", "u8">>, <<"", "u8">>, <<"byte", "u8">>,
                          <<"", "u8">> >> >> >> >> >>
         ELSE << <<"elements", "for", "num_elements", 0,
                   <<"", "variant", "Byte", <<"", "u8">> >> >> >>
    [] type = S.Int ->
         << <<"elements", "for", "num_elements", 0,
              <<"", "variant", "Int", <<"", "i32">> >> >> >>
    [] type = S.Int64 ->
         << <<"elements", "for", "num_elements", 0,
              <<"", "variant", "Long", <<"", "i64">> >> >> >>
    [] type = S.Float ->
         << <<"elements", "for", "num_elements", 0,
              <<"", "variant", "Float", <<"", "f32">> >> >> >>
    [] type = S.Enum ->
         << <<"elements", "for", "num_elements", 0,
              <<"", "variant", "Enum", <<"", "str">> >> >> >>
    [] type = S.Str ->
         << <<"elements", "for", "num_elements", 0,
              <<"", "variant", "Enum", <<"", "str">> >> >> >>
    [] type = S.Text ->
         << <<"elements", "for", "num_elements", 0,
              <<"", "variant", "Text", <<"", "text", header.build_version>> >> >> >>
    [] type \in {S.Object, S.Interface} ->
         << <<"elements", "for", "num_elements", 0,
              <<"", "variant", "Object", <<"", "reference", header.map_name>> >> >> >>
    [] type = S.SoftObject ->
         << <<"", "for", "num_elements", 0,
              <<"", "record", << <<"unk_str_1", "str">>, <<"unk_str_2", "str">>,
                                 <<"unk_str_3", "str">> >> >> >> >>
    [] type = S.Struct -> << <<"*", "array_struct", header>> >>
    [] OTHER -> << <<"", "fail", ParseError("UnknownArrayElementType", type)>> >>

read_array_property(s, p, property_name, header) ==
  ReadRecord(<< <<"type", "type">>, <<"", "skip", 1>>, <<"num_elements", "i32">>,
                <<"*", "array_elements", property_name, header>> >>,
             s, p, ArrayPropertyDefault)

(***************************************************************************)
(* read_map_property.                                                      *)
(***************************************************************************)
\* MapProperty::default(), with the locals of the loop over the pairs:
\* `key`, `value`, and `break` for the `break` taken
MapPropertyDefault ==
  [key_type |-> <<>>, value_type |-> <<>>, mode_type |-> 0, unk_mode_1 |-> None,
   unk_mode_2 |-> None, unk_mode_3 |-> None, unk_float_1 |-> None,
   unk_float_2 |-> None, unk_float_3 |-> None, unk_float_4 |-> None,
   unk_str_1 |-> None, m_normal_index |-> None, m_overflow_index |-> None,
   m_filter_index |-> None, keys |-> <<>>, values |-> <<>>,
   key |-> <<>>, value |-> <<>>, break |-> FALSE]

\* a match whose "Struct" arm looks at the parent type before the name
MapKeyParentFirst(key_type, value_type, property_name, parent_type, header) ==
  CASE key_type = S.Int -> <<"key", "variant", "Int", <<"", "i32">> >>
    [] key_type = S.Int64 -> <<"key", "variant", "Long", <<"", "i64">> >>
    [] key_type \in {S.Name, S.Str, S.Enum} ->
         <<"key", "variant", "String", <<"", "str">> >>
    [] key_type = S.Object ->
         <<"key", "variant", "Object", <<"", "reference", header.map_name>> >>
    [] key_type = S.Struct ->
         IF parent_type = S.BGU_Subsystem_C
         THEN <<"key", "variant", "FloatVector", <<"", "vector">> >>
         ELSE IF property_name = S.Destroyed_Foliage_Transform
         THEN <<"key", "variant", "DoubleVector", <<"", "vector_double">> >>
         ELSE IF property_name = S.mSaveData \/ property_name = S.mUnresolvedSaveData
         THEN <<"key", "variant", "IntVector", <<"", "vector_int">> >>
         ELSE <<"key", "variant", "Properties", <<"", "properties", header, None>> >>
    [] OTHER -> <<"key", "fail", ParseError("UnknownMapKeyType", value_type)>>

\* `let key = match map_property.key_type.as_str()`
MapKey(key_type, value_type, property_name, parent_type, header) ==
  CASE key_type = S.Int -> <<"key", "variant", "Int", <<"", "i32">> >>
    [] key_type = S.Int64 -> <<"key", "variant", "Long", <<"", "i64">> >>
    [] key_type \in {S.Name, S.Str, S.Enum} ->
         <<"key", "variant", "String", <<"", "str">> >>
    [] key_type = S.Object ->
         <<"key", "variant", "Object", <<"", "reference", header.map_name>> >>
    [] key_type = S.Struct ->
         IF property_name = S.Destroyed_Foliage_Transform
         THEN <<"key", "variant", "DoubleVector", <<"", "vector_double">> >>
         ELSE IF parent_type = S.BGU_Subsystem_C
         THEN <<"key", "variant", "FloatVector", <<"", "vector">> >>
         ELSE IF property_name = S.mSaveData \/ property_name = S.mUnresolvedSaveData
         THEN <<"key", "variant", "IntVector", <<"", "vector_int">> >>
         ELSE <<"key", "variant", "Properties", <<"", "properties", header, None>> >>
    [] OTHER -> <<"key", "fail", ParseError("UnknownMapKeyType", value_type)>>

\* `Some(Numeric::Float(self.read_f32()?))` and `Some(Numeric::Double(..))`
SomeNumeric(field, kind, read) ==
  <<field, "some", <<"", "variant", kind, <<"", read>> >> >>

\* `let value = match map_property.value_type.as_str()`: the reads of the
\* arm, which set fields of map_property, the value, or take the `break`
MapValue(key_type, value_type, parent_type, header) ==
  CASE value_type = S.Byte ->
         IF key_type = S.Str
         THEN << <<"value", "variant", "String", <<"", "str">> >> >>
         ELSE << <<"value", "variant", "Byte", <<"", "u8">> >> >>
    [] value_type = S.Bool -> << <<"value", "variant", "Bool", <<"", "u8">> >> >>
    [] value_type = S.Int -> << <<"value", "variant", "Int", <<"", "i32">> >> >>
    [] value_type = S.Int64 -> << <<"value", "variant", "Long", <<"", "i64">> >> >>
    [] value_type = S.Float -> << <<"value", "variant", "Float", <<"", "f32">> >> >>
    [] value_type = S.Double -> << <<"value", "variant", "Double", <<"", "f64">> >> >>
    [] value_type = S.Str ->
         << SomeNumeric("unk_float_1", "Float", "f32"),
            SomeNumeric("unk_float_2", "Float", "f32"),
            SomeNumeric("unk_float_3", "Float", "f32"),
            <<"value", "variant", "String", <<"", "str">> >> >>
    [] value_type = S.Object ->
         IF parent_type = S.BGU_Subsystem_C
         THEN << SomeNumeric("unk_float_1", "Float", "f32"),
                 SomeNumeric("unk_float_2", "Float", "f32"),
                 SomeNumeric("unk_float_3", "Float", "f32"),
                 SomeNumeric("unk_float_4", "Float", "f32"),
                 <<"unk_str_1", "some", <<"", "str">> >>,
                 <<"break", "const", TRUE>> >>
         ELSE << <<"value", "variant", "Object",
                   <<"", "reference", header.map_name>> >> >>
    [] value_type = S.Struct ->
         IF parent_type = S.LBBalancerData
         THEN << <<"m_normal_index", "some", <<"", "i32">> >>,
                 <<"m_overflow_index", "some", <<"", "i32">> >>,
                 <<"m_filter_index", "some", <<"", "i32">> >>,
                 <<"break", "const", TRUE>> >>
         ELSE IF parent_type = S.Sub_SR_C
         THEN << SomeNumeric("unk_float_1", "Double", "f64"),
                 SomeNumeric("unk_float_2", "Double", "f64"),
                 SomeNumeric("unk_float_3", "Double", "f64"),
                 <<"break", "const", TRUE>> >>
         ELSE << <<"value", "variant", "Struct", <<"", "properties", header, None>> >> >>
    [] OTHER -> << <<"value", "fail", ParseError("UnknownMapValueType", value_type)>> >>

\* `for _ in 0..num_pairs` with n turns left: the reads of a pair, then
\* `map_property.keys.push(key); map_property.values.push(value)`
RECURSIVE ReadMapPairs(_, _, _, _, _)
\* a loop that goes on with the next pair where the value arm has taken its
\* `break`
MapPairPushUnbroken(s, n, pair, r) ==
  IF ~r.ok THEN r
  ELSE ReadMapPairs(s, r.pos, n - 1, pair,
                    [r.val EXCEPT !.keys = Append(@, r.val.key),
                                  !.values = Append(@, r.val.value)])

\* a loop that pushes the key in front of the value arm
MapPairPushKeyFirst(s, n, pair, r) ==
  IF ~r.ok THEN r
  ELSE IF r.val.break THEN Ok(r.pos, [r.val EXCEPT !.keys = Append(@, r.val.key)])
  ELSE ReadMapPairs(s, r.pos, n - 1, pair,
                    [r.val EXCEPT !.keys = Append(@, r.val.key),
                                  !.values = Append(@, r.val.value)])

MapPairPush(s, n, pair, r) ==
  IF ~r.ok THEN r
  ELSE IF r.val.break THEN Ok(r.pos, r.val)
  ELSE ReadMapPairs(s, r.pos, n - 1, pair,
                    [r.val EXCEPT !.keys = Append(@, r.val.key),
                                  !.values = Append(@, r.val.value)])

ReadMapPairs(s, p, n, pair, map_property) ==
  IF n <= 0 THEN Ok(p, map_property)
  ELSE MapPairPush(s, n, pair, ReadRecord(pair, s, p, map_property))

read_map_property(s, p, property_name, parent_type, header) ==
  ReadRecord(<< <<"key_type", "type">>, <<"value_type", "type">>, <<"", "skip", 1>>,
                <<"mode_type", "i32">>,
                <<"unk_mode_1", "if", "mode_type", {3}, <<"", "hex", 9>> >>,
                <<"unk_mode_2", "if", "mode_type", {2, 3}, <<"", "str">> >>,
                <<"unk_mode_3", "if", "mode_type", {2, 3}, <<"", "str">> >>,
                <<"num_pairs", "i32">>,
                <<"*", "map_pairs", property_name, ParentTypeOrEmpty(parent_type),
                  header>> >>,
             s, p, MapPropertyDefault)

(***************************************************************************)
(* read_set_property and read_struct_property.                             *)
(***************************************************************************)
\* `let value = match property.r#type.as_str()`
SetValue(type, parent_type, header) ==
  CASE type = S.Int -> <<"", "variant", "Int", <<"", "i32">> >>
    [] type = S.UInt32 -> <<"", "variant", "UInt32", <<"", "u32">> >>
    [] type \in {S.Name, S.String} -> <<"", "variant", "String", <<"", "str">> >>
    [] type = S.Object ->
         <<"", "variant", "Object", <<"", "reference", header.map_name>> >>
    [] type = S.Struct ->
         IF parent_type = S.FGFoilageRemoval
         THEN <<"", "variant", "Vector", <<"", "vector">> >>
         ELSE <<"", "variant", "FINNetworkTrace", <<"", "trace">> >>
    [] OTHER -> <<"", "fail", ParseError("UnknownSetType", type)>>

read_set_property(s, p, parent_type, header) ==
  ReadRecord(<< <<"type", "type">>, <<"", "skip", 5>>, <<"num_elements", "i32">>,
                <<"values", "for", "num_elements", 0,
                  <<"", "set_value", ParentTypeOrEmpty(parent_type), header>> >> >>,
             s, p, <<>>)

\* `match self.read_property(header, None)? { Some(p) => p, None => return Err(..) }`
Required(property, item_name) ==
  IF ~property.ok THEN property
  ELSE IF property.val.some THEN Ok(property.pos, property.val.v)
  ELSE Err(property.pos, ParseError("MissingInventoryItemProperty", item_name))

\* `let value = match r#type.as_str()`
StructValue(type, parent_type, header) ==
  CASE type = S.Color -> <<"", "variant", "Color", <<"", "color_byte">> >>
    [] type = S.LinearColor -> <<"", "variant", "LinearColor", <<"", "color">> >>
    [] type \in {S.Vector, S.Rotator} ->
         IF parent_type = S.SpawnData
         THEN <<"", "variant", "DoubleVector", <<"", "vector_double">> >>
         ELSE <<"", "variant", "FloatVector", <<"", "vector">> >>
    [] type = S.Vector2D -> <<"", "variant", "DoubleVector2D", <<"", "vector2d_double">> >>
    [] type = S.IntVector4 -> <<"", "variant", "IntVector4", <<"", "vector4_int">> >>
    [] type = S.Quat -> <<"", "variant", "DoubleQuaternion", <<"", "quaternion_double">> >>
    [] type = S.Vector4 -> <<"", "variant", "DoubleVector4", <<"", "vector4_double">> >>
    [] type = S.Box ->
         <<"", "variant", "Box",
           <<"", "record", << <<"min", "vector_double">>, <<"max", "vector_double">>,
                              <<"is_valid", "u8">> >> >> >>
    [] type = S.RailroadTrackPosition ->
         <<"", "variant", "RailroadTrackPosition",
           <<"", "record", << <<"object", "reference", header.map_name>>,
                              <<"offset", "f32">>, <<"forward", "f32">> >> >> >>
    [] type = S.TimerHandle -> <<"", "variant", "TimerHandle", <<"", "str">> >>
    [] type = S.Guid -> <<"", "variant", "GUID", <<"", "hex", 16>> >>
    [] type = S.InventoryItem ->
         <<"", "variant", "InventoryItem",
           <<"", "record", << <<"unk_int_1", "i32">>, <<"item_name", "str">>,
                              <<"object", "reference", header.map_name>>,
                              <<"property", "required_property", header>> >> >> >>
    [] type = S.FluidBox -> <<"", "variant", "FluidBox", <<"", "f32">> >>
    [] type = S.SlateBrush -> <<"", "variant", "SlateBrush", <<"", "str">> >>
    [] type = S.DateTime -> <<"", "variant", "DateTime", <<"", "i64">> >>
    [] type = S.FINNetworkTrace -> <<"", "variant", "FINNetworkTrace", <<"", "trace">> >>
    [] type = S.FINLuaProcessorStateStorage ->
         <<"", "variant", "FINLuaProcessorStateStorage",
           <<"", "state_storage", header, None>> >>
    [] type = S.FICFrameRange ->
         <<"", "variant", "FICFrameRange",
           <<"", "record", << <<"begin", "i64">>, <<"end", "i64">> >> >> >>
    [] type = S.IntPoint -> <<"", "variant", "IntVector2D", <<"", "vector2d_int">> >>
    [] OTHER -> <<"", "variant", "Properties", <<"", "properties", header, Some(type)>> >>

\* the value is (type, value), as [type, value]
read_struct_property(s, p, parent_type, header) ==
  ReadRecord(<< <<"type", "str">>, <<"", "skip", 17>>,
                <<"value", "struct_value", ParentTypeOrEmpty(parent_type), header>> >>,
             s, p, <<>>)

(***************************************************************************)
(* read_property; the value is None for the "None" sentinel and            *)
(* Some(Property) otherwise.                                               *)
(***************************************************************************)
\* property.rs: PropertyValue::from_str, derived by strum::EnumString; the
\* value is the name of the variant
PropertyValue_from_str(t) ==
  CASE t \in {S.Bool, S.Int8, S.Int, S.UInt32, S.Int64, S.UInt64, S.Float, S.Double,
              S.Enum, S.Byte, S.Text, S.Array, S.Map, S.Set, S.Struct} -> Some(t)
    [] t \in {S.Str, S.Name} -> Some(S.String)
    [] t \in {S.Object, S.Interface} -> Some(S.Object)
    [] OTHER -> None

\* the value read in front of the guid
ValueThenGuid(kind, read) ==
  << <<"value", "variant", kind, read>>, <<"guid", "guid">> >>

\* `guid = self.read_property_guid()?; *p = <read>`
GuidThen(kind, read) ==
  << <<"guid", "guid">>, <<"value", "variant", kind, read>> >>

\* `match &mut value`: the reads of the variant
PropertyRead(variant, name, header, parent_type) ==
  CASE variant = Some(S.Array) ->
         << <<"value", "variant", "Array", <<"", "array", name, header>> >> >>
    [] variant = Some(S.Bool) ->
         << <<"value", "variant", "Bool", <<"", "u8">> >>, <<"guid", "guid">> >>
    [] variant = Some(S.Byte) ->
         << <<"value", "variant", "Byte",
              <<"", "record",
                << <<"type", "str">>,
                   <<"byte_value", "if", "type", {S.None}, <<"", "u8">> >>,
                   <<"string_value", "unless", "type", {S.None}, <<"", "str">> >> >> >> >> >>
    [] variant = Some(S.Double) -> GuidThen("Double", <<"", "f64">>)
    [] variant = Some(S.Enum) ->
         << <<"enum_name", "str">>, <<"guid", "guid">>,
            <<"value", "variant", "Enum", <<"", "insert", "enum_name", <<"", "str">> >> >> >>
    [] variant = Some(S.Float) -> GuidThen("Float", <<"", "f32">>)
    [] variant = Some(S.Int) -> GuidThen("Int", <<"", "i32">>)
    [] variant = Some(S.Int8) -> GuidThen("Int8", <<"", "i8">>)
    [] variant = Some(S.Int64) -> GuidThen("Int64", <<"", "i64">>)
    [] variant = Some(S.Map) ->
         << <<"value", "variant", "Map", <<"", "map", name, parent_type, header>> >> >>
    [] variant = Some(S.Object) ->
         GuidThen("Object", <<"", "reference", header.map_name>>)
    [] variant = Some(S.Set) ->
         << <<"value", "variant", "Set", <<"", "set", parent_type, header>> >> >>
    [] variant = Some(S.String) -> GuidThen("String", <<"", "str">>)
    [] variant = Some(S.Struct) ->
         << <<"value", "variant", "Struct", <<"", "struct", parent_type, header>> >> >>
    [] variant = Some(S.Text) -> GuidThen("Text", <<"", "text", header.build_version>>)
    [] variant = Some(S.UInt32) -> GuidThen("UInt32", <<"", "u32">>)
    [] variant = Some(S.UInt64) -> GuidThen("UInt64", <<"", "u64">>)

\* no name taken for the sentinel
NeverSentinel(name) == FALSE

\* `if name == "None"`
IsSentinel(name) == name = S.None

\* the name was read: the sentinel, or the rest of the property
PropertyNamed(s, name, header, parent_type) ==
  IF ~name.ok THEN name
  ELSE IF IsSentinel(name.val) THEN Ok(name.pos, None)
  ELSE Optional(ReadRecord(<< <<"", "extra_byte">>, <<"type", "type">>,
                              <<"size", "i32">>, <<"index", "i32">>,
                              <<"*", "property_value", header, parent_type>> >>,
                           s, name.pos, [name |-> name.val, guid |-> None]))

read_property(s, p, header, parent_type) ==
  PropertyNamed(s, read_length_prefixed_string(s, p), header, parent_type)

\* `while let Some(p) = self.read_property(header, parent_type)? { <vec>.push(p) }`
RECURSIVE ReadPropertyList(_, _, _, _)
PropertyListPush(s, property, header, parent_type) ==
  IF ~property.ok THEN property
  ELSE IF ~property.val.some THEN Ok(property.pos, <<>>)
  ELSE Cons(property.val.v, ReadPropertyList(s, property.pos, header, parent_type))

ReadPropertyList(s, p, header, parent_type) ==
  PropertyListPush(s, read_property(s, p, header, parent_type), header, parent_type)

(***************************************************************************)
(* The read of one entry of a schema, with the record read so far.         *)
(***************************************************************************)
ReadField(e, s, p, rec) ==
  CASE e[2] = "u8" -> ReadInt(s, p, 1, FALSE)
    [] e[2] = "i8" -> ReadInt(s, p, 1, TRUE)
    [] e[2] = "i32" -> ReadInt(s, p, 4, TRUE)
    [] e[2] = "u32" -> ReadInt(s, p, 4, FALSE)
    [] e[2] = "i64" -> ReadInt(s, p, 8, TRUE)
    [] e[2] = "u64" -> ReadInt(s, p, 8, FALSE)
       \* read_f32, read_f64: a float is kept as its IEEE-754 bit pattern
    [] e[2] = "f32" -> ReadExact(s, p, 4)
    [] e[2] = "f64" -> ReadExact(s, p, 8)
    [] e[2] = "str" -> read_length_prefixed_string(s, p)
    [] e[2] = "type" -> Stripped(read_length_prefixed_string(s, p))
    [] e[2] = "seek_str" -> seek_length_prefixed_string(s, p)
    [] e[2] = "hex" -> read_hex(s, p, e[3])
    [] e[2] = "skip" -> SeekRelative(s, p, e[3])
       \* `vec![0; n]; self.read_exact(..)` for the n of a field
    [] e[2] = "bytes" -> ReadExact(s, p, rec[e[3]])
       \* `let extra_byte = self.read_u8()?; if extra_byte != 0 { self.seek_relative(-1)? }`
    [] e[2] = "extra_byte" ->
         IF ~Avail(s, p, 1) THEN Eof(s)
         ELSE IF s[p + 1] # 0 THEN SeekRelative(s, p + 1, -1)
         ELSE Ok(p + 1, <<>>)
       \* no read
    [] e[2] = "const" -> Ok(p, e[3])
    [] e[2] = "quotient" -> Ok(p, Quotient(rec[e[3]], e[4]))
    [] e[2] = "fail" -> Err(p, e[3])
    [] e[2] = "expect" ->
         IF rec[e[3]] \in e[4] THEN Ok(p, <<>>) ELSE Err(p, ParseError(e[5], rec[e[3]]))
       \* a read under a condition on a field read before, a loop, a struct
    [] e[2] = "some" -> Optional(ReadField(e[3], s, p, rec))
    [] e[2] = "if" ->
         IF rec[e[3]] \in e[4] THEN Optional(ReadField(e[5], s, p, rec)) ELSE Ok(p, None)
    [] e[2] = "unless" ->
         IF rec[e[3]] \notin e[4] THEN Optional(ReadField(e[5], s, p, rec))
         ELSE Ok(p, None)
       \* `HashMap::new()` and `insert(<field>, <read>)`
    [] e[2] = "insert" -> Inserted(rec[e[3]], ReadField(e[4], s, p, rec))
    [] e[2] = "for" -> ReadMany(e[5], s, p, rec[e[3]] + e[4], rec)
    [] e[2] = "record" -> ReadRecord(e[3], s, p, <<>>)
    [] e[2] = "field" -> Field(ReadRecord(e[4], s, p, <<>>), e[3])
    [] e[2] = "variant" -> Tag(e[3], ReadField(e[4], s, p, rec))
    [] e[2] = "ignore" -> Ignore(e[3], ReadField(e[4], s, p, rec))
       \* the methods of the trait
    [] e[2] = "quaternion" -> read_quaternion(s, p)
    [] e[2] = "quaternion_double" -> read_quaternion_double(s, p)
    [] e[2] = "vector2d_double" -> read_vector2d_double(s, p)
    [] e[2] = "vector2d_int" -> read_vector2d_int(s, p)
    [] e[2] = "vector" -> read_vector(s, p)
    [] e[2] = "vector_double" -> read_vector_double(s, p)
    [] e[2] = "vector_int" -> read_vector_int(s, p)
    [] e[2] = "vector4_double" -> read_vector4_double(s, p)
    [] e[2] = "vector4_int" -> read_vector4_int(s, p)
    [] e[2] = "color" -> read_color(s, p)
    [] e[2] = "color_byte" -> read_color_byte(s, p)
    [] e[2] = "object_reference" -> read_object_reference(s, p, e[3], rec, e[4])
       \* `let mut object = ObjectReference::default();
       \*  self.read_object_reference(&mut object, ..)?`
    [] e[2] = "reference" ->
         read_object_reference(s, p, "ObjectReference", ObjectReferenceDefault, e[3])
    [] e[2] = "guid" -> read_property_guid(s, p)
    [] e[2] = "trace" -> read_fin_network_trace(s, p)
    [] e[2] = "pixel" -> read_fingput1_buffer_pixel(s, p)
    [] e[2] = "text" -> read_text_property(s, p, e[3])
    [] e[2] = "history" -> ReadField(TextHistory(rec.history_type, e[3]), s, p, rec)
    [] e[2] = "state_storage" -> read_fin_lua_processor_state_storage(s, p, e[3], e[4])
    [] e[2] = "lua_value" ->
         ReadField(LuaStructValue(rec.class_name, e[3], e[4]), s, p, rec)
    [] e[2] = "array" -> read_array_property(s, p, e[3], e[4])
    [] e[2] = "array_elements" ->
         ReadRecord(ArrayElements(rec.type, e[3], e[4]), s, p, rec)
    [] e[2] = "array_struct" ->
         ArrayStructInto(rec, read_array_property_struct(s, p, rec.num_elements, e[3]))
    [] e[2] = "array_struct_value" ->
         ReadField(ArrayStructValue(rec.type, e[3]), s, p, rec)
    [] e[2] = "map" -> read_map_property(s, p, e[3], e[4], e[5])
    [] e[2] = "map_pairs" ->
         ReadMapPairs(s, p, rec.num_pairs,
                      <<MapKey(rec.key_type, rec.value_type, e[3], e[4], e[5])>>
                        \o MapValue(rec.key_type, rec.value_type, e[4], e[5]),
                      rec)
    [] e[2] = "set" -> read_set_property(s, p, e[3], e[4])
    [] e[2] = "set_value" -> ReadField(SetValue(rec.type, e[3], e[4]), s, p, rec)
    [] e[2] = "struct" -> read_struct_property(s, p, e[3], e[4])
    [] e[2] = "struct_value" -> ReadField(StructValue(rec.type, e[3], e[4]), s, p, rec)
    [] e[2] = "property_value" ->
         IF PropertyValue_from_str(rec.type).some
         THEN ReadRecord(PropertyRead(PropertyValue_from_str(rec.type), rec.name, e[3], e[4]),
                         s, p, rec)
         ELSE Err(p, ParseError("UnknownPropertyType", rec.type))
    [] e[2] = "required_property" -> Required(read_property(s, p, e[3], None), rec.item_name)
    [] e[2] = "properties" -> ReadPropertyList(s, p, e[3], e[4])
       \* stream_position
    [] e[2] = "position" -> Ok(p, p)

(***************************************************************************)
(* The zlib decoder of read_file (flate2::read::ZlibDecoder), for streams  *)
(* of stored blocks.                                                       *)
(***************************************************************************)
\* the sums of Adler-32 over data[lo..hi], both modulo 65521: <<a, b>> with
\* a the sum of the bytes and b the sum of the running sums of the bytes;
\* l and r are the sums of the two halves, n the length of the second half
AdlerJoin(l, r, n) ==
  <<(l[1] + r[1]) % 65521, (l[2] + ((l[1] * n) % 65521) + r[2]) % 65521>>

RECURSIVE AdlerSums(_, _, _)
AdlerSums(data, lo, hi) ==
  IF lo > hi THEN <<0, 0>>
  ELSE IF lo = hi THEN <<data[lo], data[lo]>>
  ELSE AdlerJoin(AdlerSums(data, lo, (lo + hi) \div 2),
                 AdlerSums(data, ((lo + hi) \div 2) + 1, hi),
                 hi - ((lo + hi) \div 2))

\* Adler-32 of n bytes with the sums, as <<s2, s1>>, the two 16-bit halves of
\* the checksum
AdlerOf(n, sums) == <<(n + sums[2]) % 65521, (1 + sums[1]) % 65521>>

Adler32(data) == AdlerOf(Len(data), AdlerSums(data, 1, Len(data)))

\* the data of a block in front of the blocks after it
InflatedAfter(data, rest) == [rest EXCEPT !.data = data \o @]

\* the stored (uncompressed) deflate blocks at position p of z: their data,
\* the position after the final block, `truncated` when the input ended
\* inside the blocks, ~ok for a block that is not well-formed
RECURSIVE InflateStored(_, _)
\* the block at p with the final flag and the block type in `bits` and the
\* length len
InflateBlock(z, p, bits, len) ==
  CASE (bits \div 2) % 4 = 3 -> [ok |-> FALSE, truncated |-> FALSE, data |-> <<>>, pos |-> p]
    [] (bits \div 2) % 4 = 0 ->
         IF len + LEUnsigned(Bytes(z, p + 3, 2)) # 65535
         THEN [ok |-> FALSE, truncated |-> FALSE, data |-> <<>>, pos |-> p]
         ELSE IF ~Avail(z, p + 5, len)
         THEN [ok |-> TRUE, truncated |-> TRUE, data |-> SubSeq(z, p + 6, Len(z)),
               pos |-> Len(z)]
         ELSE IF bits % 2 = 1
         THEN [ok |-> TRUE, truncated |-> FALSE, data |-> Bytes(z, p + 5, len),
               pos |-> p + 5 + len]
         ELSE InflatedAfter(Bytes(z, p + 5, len), InflateStored(z, p + 5 + len))

InflateStored(z, p) ==
  IF ~Avail(z, p, 5)
  THEN [ok |-> TRUE, truncated |-> TRUE, data |-> <<>>, pos |-> Len(z)]
  ELSE InflateBlock(z, p, z[p + 1], LEUnsigned(Bytes(z, p + 1, 2)))

\* the data of the blocks b when the checksum that follows them is right
InflateChecked(z, b) ==
  IF ~b.ok THEN Err(0, ParseError("Read", "InvalidInput"))
  ELSE IF b.truncated \/ ~Avail(z, b.pos, 4) THEN Ok(0, b.data)
  ELSE IF <<z[b.pos + 1] * 256 + z[b.pos + 2], z[b.pos + 3] * 256 + z[b.pos + 4]>>
            = Adler32(b.data)
  THEN Ok(0, b.data)
  ELSE Err(0, ParseError("Read", "InvalidInput"))

\* ZlibDecoder::new(&chunk_bytes[..]).read_to_end(&mut body_bytes) for a
\* zlib stream of stored blocks; the value is the decompressed data.  A
\* stream cut short ends the read with the data decoded so far.
Inflate(z) ==
  IF Len(z) < 2 THEN Ok(0, <<>>)
  ELSE IF z[1] % 16 # 8 \/ z[1] \div 16 > 7 \/ (z[1] * 256 + z[2]) % 31 # 0
          \/ (z[2] \div 32) % 2 = 1
  THEN Err(0, ParseError("Read", "InvalidInput"))
  ELSE InflateChecked(z, InflateStored(z, 2))

\* `for chunk_bytes in chunks { .. z.read_to_end(&mut body_bytes)?; }`: the
\* decompressed bodies of the chunks, one after the other
RECURSIVE InflateAll(_)
InflateAfter(z, rest) == IF ~rest.ok THEN rest ELSE Ok(0, z.val \o rest.val)

InflateNext(z, chunks) == IF ~z.ok THEN z ELSE InflateAfter(z, InflateAll(Tail(chunks)))

InflateAll(chunks) ==
  IF chunks = <<>> THEN Ok(0, <<>>) ELSE InflateNext(Inflate(Head(chunks)), chunks)

(***************************************************************************)
(* save.rs: the Object under construction, [kind, v], with the local       *)
(* start_byte of read_object kept next to the fields of the object.        *)
(***************************************************************************)
ActorObjectDefault ==
  [should_be_nulled |-> FALSE, save_version |-> 0, size_bytes |-> 0,
   parent_object_root |-> <<>>, parent_object_name |-> <<>>, num_components |-> 0,
   components |-> <<>>, properties |-> <<>>, missing |-> None, extra |-> None,
   start_byte |-> 0]

ComponentObjectDefault ==
  [should_be_nulled |-> FALSE, save_version |-> 0, size_bytes |-> 0,
   properties |-> <<>>, missing |-> None, extra |-> None, start_byte |-> 0]

\* `match object_header { Actor(_) => Object::Actor(..), Component(_) => .. }`
ObjectFor(object_header) ==
  IF object_header.kind = "Actor"
  THEN [kind |-> "Actor", v |-> ActorObjectDefault]
  ELSE [kind |-> "Component", v |-> ComponentObjectDefault]

set_should_be_nulled(object) == [object EXCEPT !.v.should_be_nulled = TRUE]
add_property(object, property) == [object EXCEPT !.v.properties = Append(@, property)]

\* Level::default()
LevelDefault == [name |-> <<>>, object_headers |-> <<>>, collectables |-> <<>>, objects |-> <<>>]

(***************************************************************************)
(* The reads of read_object and read_level between their loops.            *)
(***************************************************************************)
\* read_object, to its properties: the save version, the declared size, the
\* start byte and, for an actor, the parent reference and the components
read_object_meta(s, p, object, map_name) ==
  Tag(object.kind,
      ReadRecord(<< <<"save_version", "i32">>, <<"", "skip", 4>>,
                    <<"size_bytes", "i32">>, <<"start_byte", "position">> >>
                   \o (IF object.kind = "Actor"
                       THEN << <<"*", "object_reference", "ActorObject", map_name>>,
                               <<"num_components", "i32">>,
                               <<"components", "for", "num_components", 0,
                                 <<"", "reference", map_name>> >> >>
                       ELSE <<>>),
                 s, p, object.v))

\* no object taken as nulled
NeverNulled(current_position, start_byte, object_size_bytes) == FALSE

\* `current_position - start_byte == object_size_bytes as u64`: a negative
\* size is cast to a value above every position
IsNulled(current_position, start_byte, object_size_bytes) ==
  object_size_bytes >= 0 /\ current_position - start_byte = object_size_bytes

\* no check of the position against the end of the object
NeverOverran(current_object_end_position, current_position) == FALSE

\* `current_object_end_position < current_position`
Overran(current_object_end_position, current_position) ==
  current_object_end_position < current_position

\* 4 bytes skipped after the property list, whatever is missing
SkipFour(s, p, missing_bytes, type_path) == SeekRelative(s, p, 4)

\* the bytes taken after the property list when `missing_bytes` are missing
SkipGap(s, p, missing_bytes, type_path) ==
  IF missing_bytes > 4
  THEN IF StartsWith(type_path, S.FactoryGame_FG)
       THEN SeekRelative(s, p, 8)
       ELSE read_hex(s, p, missing_bytes)
  ELSE SeekRelative(s, p, 4)

\* the arguments of `self.read_level(i, i == num_levels, header)`, and its
\* locals
LevelCall(i, num_levels) ==
  [level_index |-> i, is_last_level |-> (i = num_levels), name |-> <<>>,
   object_headers_and_collectables_size_bytes |-> 0, level_start_byte |-> 0,
   num_object_headers |-> 0, collectables |-> <<>>, collectables_end |-> 0,
   num_objects |-> 0]

\* read_level, to the loop over its object headers
LevelHead(is_last_level, map_name) ==
  << IF is_last_level THEN <<"name", "const", S.Level_ \o map_name>>
     ELSE <<"name", "str">>,
     <<"object_headers_and_collectables_size_bytes", "i64">>,
     <<"level_start_byte", "position">>, <<"num_object_headers", "i32">> >>

\* read_level, from the collectables to the loop over its objects;
\* collectables_end keeps the position behind the collectables or the pad
LevelCollectablesAndCount(current_position, stop_byte, map_name) ==
  (IF current_position < stop_byte
   THEN << <<"num_collectables", "i32">>,
           <<"collectables", "for", "num_collectables", 0,
             <<"", "reference", map_name>> >> >>
   ELSE IF current_position = stop_byte THEN << <<"", "skip", 4>> >>
   ELSE <<>>)
    \o << <<"collectables_end", "position">>, <<"", "skip", 8>>,
          <<"num_objects", "i32">> >>

\* read_level, after its objects: the repeated collectables, skipped
SecondCollectables ==
  << <<"num_second_collectables", "i32">>,
     <<"", "for", "num_second_collectables", 0,
       <<"", "record", << <<"", "seek_str">>, <<"", "seek_str">> >> >> >> >>


(***************************************************************************)
(* The wire format, written: the inverse of the byte reader, used to build *)
(* the input streams.                                                      *)
(***************************************************************************)
\* n as w little-endian bytes, two's complement
RECURSIVE EncLE(_, _)
EncLE(n, w) == IF w = 0 THEN <<>> ELSE <<n % 256>> \o EncLE(n \div 256, w - 1)

EncI32(n) == EncLE(n, 4)
EncI64(n) == EncLE(n, 8)

EncUtf8Char(c) ==
  IF c < 128 THEN <<c>>
  ELSE IF c < 2048 THEN <<192 + (c \div 64), 128 + (c % 64)>>
  ELSE IF c < 65536
  THEN <<224 + (c \div 4096), 128 + ((c \div 64) % 64), 128 + (c % 64)>>
  ELSE <<240 + (c \div 262144), 128 + ((c \div 4096) % 64), 128 + ((c \div 64) % 64),
         128 + (c % 64)>>

EncUtf16Char(c) ==
  IF c < 65536 THEN <<c>>
  ELSE <<55296 + ((c - 65536) \div 1024), 56320 + ((c - 65536) % 1024)>>

RECURSIVE FlatMap(_, _)
FlatMap(F(_), seq) == IF seq = <<>> THEN <<>> ELSE F(Head(seq)) \o FlatMap(F, Tail(seq))

EncUtf8(str) == FlatMap(EncUtf8Char, str)
EncUtf16Units(str) == FlatMap(EncUtf16Char, str)
EncUtf16(str) == FlatMap(LAMBDA u : EncLE(u, 2), EncUtf16Units(str))

\* a length-prefixed string: "utf8" = positive length, the UTF-8 bytes and a
\* NUL; "utf16" = negative length, the UTF-16 code units and a NUL code unit;
\* "empty" = length 0
WriteString(str, enc) ==
  CASE enc = "utf8" -> EncI32(Len(EncUtf8(str)) + 1) \o EncUtf8(str) \o <<0>>
    [] enc = "utf16" -> EncI32(-(Len(EncUtf16Units(str)) + 1)) \o EncUtf16(str) \o <<0, 0>>
    [] enc = "empty" -> EncI32(0)

\* the usual form: empty strings as length 0, the others as UTF-8
EncStr(str) == IF str = <<>> THEN WriteString(str, "empty") ELSE WriteString(str, "utf8")

Zeros(n) == [i \in 1..n |-> 0]


RECURSIVE Concat(_)
Concat(seqs) == IF seqs = <<>> THEN <<>> ELSE Head(seqs) \o Concat(Tail(seqs))

\* the sequences over a set of length lo..hi
SeqsOf(set, lo, hi) == UNION {[1..k -> set] : k \in lo..hi}

(***************************************************************************)
(* Inputs.  Names used in the input streams.                               *)
(***************************************************************************)
T ==
  [A |-> <<65>>,  \* "A"
   B |-> <<66>>,  \* "B"
   M |-> <<77>>,  \* "M"
   X |-> <<88>>,  \* "X"
   Hi |-> <<72, 105>>,  \* "Hi"
   Foo |-> <<70, 111, 111>>,  \* "Foo"
   int |-> <<105, 110, 116>>,  \* "int"
   FGX |-> <<47, 83, 99, 114, 105, 112, 116, 47, 70, 97, 99, 116, 111, 114, 121, 71, 97, 109, 101, 46, 70, 71, 88>>,  \* "/Script/FactoryGame.FGX"
   GameA |-> <<47, 71, 97, 109, 101, 47, 65>>,  \* "/Game/A"
   Count |-> <<67, 111, 117, 110, 116>>]  \* "Count"

\* a type name as it is written in the stream: with "Property" appended
Tagged(t) == t \o S.Property

HeaderDefault ==
  [save_header_version |-> 0, save_file_version |-> 0, build_version |-> 0,
   map_name |-> <<>>, map_options |-> <<>>, session_name |-> <<>>,
   played_seconds |-> 0, save_timestamp |-> 0, session_visibility |-> 0,
   editor_object_version |-> 0, mod_metadata |-> <<>>, mod_flags |-> 0,
   save_identifier |-> <<>>, is_partitioned_world |-> 0, saved_data_hash |-> <<>>,
   is_creative_mode_enabled |-> 0]

\* the Header passed to a reader that is called on its own
HeaderFor(map_name) ==
  [HeaderDefault EXCEPT !.save_file_version = MIN_SAVE_FILE_VERSION, !.map_name = map_name]

(***************************************************************************)
(* Properties, written.                                                    *)
(***************************************************************************)
\* name, type-tag, size and index
WProp(name, tag, size) == EncStr(name) \o EncStr(tag) \o EncI32(size) \o EncI32(0)

WInt(name, v) == WProp(name, Tagged(S.Int), 4) \o <<0>> \o EncI32(v)
WStr(name, str) == WProp(name, Tagged(S.Str), Len(EncStr(str))) \o <<0>> \o EncStr(str)
WObject(name, level, path) ==
  WProp(name, Tagged(S.Object), Len(EncStr(level)) + Len(EncStr(path)))
    \o <<0>> \o EncStr(level) \o EncStr(path)
WStruct(name, type, payload) ==
  WProp(name, Tagged(S.Struct), Len(payload)) \o EncStr(type) \o Zeros(17) \o payload
WArray(name, etype, n, payload) ==
  WProp(name, Tagged(S.Array), Len(payload) + 4) \o EncStr(etype) \o <<0>> \o EncI32(n) \o payload
\* the header of an array of structs, in front of its elements
WArrayStructMeta(name, type) ==
  EncStr(name) \o EncStr(Tagged(S.Struct)) \o EncI32(0) \o Zeros(4) \o EncStr(type)
    \o Zeros(16) \o <<0>>
WMap(name, ktype, vtype, n, payload) ==
  WProp(name, Tagged(S.Map), Len(payload) + 8) \o EncStr(ktype) \o EncStr(vtype) \o <<0>>
    \o EncI32(0) \o EncI32(n) \o payload
WSet(name, etype, n, payload) ==
  WProp(name, Tagged(S.Set), Len(payload) + 8) \o EncStr(etype) \o Zeros(5) \o EncI32(n) \o payload
WNone == EncStr(S.None)

\* property lists, without their sentinel: the bytes, and the names of the
\* properties of the list and of every list nested in it, the outer list
\* first
PropListSamples ==
  << [bytes |-> <<>>, lists |-> << <<>> >>],
     [bytes |-> WInt(T.A, 1), lists |-> << <<T.A>> >>],
     [bytes |-> WInt(T.A, 1) \o WStr(T.B, T.Hi), lists |-> << <<T.A, T.B>> >>],
     [bytes |-> WStruct(T.M, T.Foo, WInt(T.B, 2) \o WNone) \o WInt(T.A, 1),
      lists |-> << <<T.M, T.A>>, <<T.B>> >>],
     [bytes |-> WArray(T.M, Tagged(S.Struct), 2,
                       WArrayStructMeta(T.M, T.Foo) \o WInt(T.A, 1) \o WNone \o WNone)
                  \o WInt(T.B, 2),
      lists |-> << <<T.M, T.B>>, <<T.A>>, <<>> >>],
     [bytes |-> WMap(T.M, Tagged(S.Struct), Tagged(S.Struct), 1,
                     WInt(T.A, 1) \o WNone \o WInt(T.B, 2) \o WInt(T.A, 3) \o WNone),
      lists |-> << <<T.M>>, <<T.A>>, <<T.B, T.A>> >>],
     [bytes |-> WInt(T.Count, 42), lists |-> << <<T.Count>> >>] >>

(***************************************************************************)
(* Objects, levels and files, written.                                     *)
(***************************************************************************)
WRef(level, path) == EncStr(level) \o EncStr(path)

\* the part of an object body in front of its properties
WActorPart(kind, level, path, components) ==
  IF kind = "Actor"
  THEN WRef(level, path) \o EncI32(Len(components)) \o Concat(components)
  ELSE <<>>

WObjectBody(size_bytes, content) == EncI32(46) \o Zeros(4) \o EncI32(size_bytes) \o content

\* a body as the game writes it: the properties, the sentinel and 4 bytes,
\* all counted in the declared size
WObjectBodyFor(kind) ==
  LET content == WActorPart(kind, T.X, T.A, <<WRef(T.A, T.B)>>) \o WInt(T.A, 1) \o WNone
                   \o Zeros(4)
  IN  WObjectBody(Len(content), content)

WObjectHeader(kind, type_path, level, path) ==
  IF kind = "Actor"
  THEN EncI32(1) \o EncStr(type_path) \o WRef(level, path) \o EncI32(1) \o Zeros(16)
         \o Zeros(12) \o Zeros(12) \o EncI32(1)
  ELSE EncI32(0) \o EncStr(type_path) \o WRef(level, path) \o EncStr(T.A)

\* named: the level name is written; hkinds: the kinds of the object
\* headers; k: the declared object count; c: the number of collectables, -1
\* for the 4-byte pad; size_delta: what the declared size of the headers and
\* collectables is above their size
WLevel(named, name, hkinds, k, c, size_delta) ==
  LET headers == Concat([i \in 1..Len(hkinds) |-> WObjectHeader(hkinds[i], T.GameA, T.X, T.B)])
      colls == IF c < 0 THEN Zeros(4)
               ELSE EncI32(c) \o Concat([i \in 1..c |-> WRef(T.A, T.B)])
      bodies == Concat([i \in 1..k |->
                          WObjectBodyFor(IF i <= Len(hkinds) THEN hkinds[i] ELSE "Component")])
  IN  (IF named THEN EncStr(name) ELSE <<>>) \o EncI64(4 + Len(headers) + Len(colls) + size_delta)
        \o EncI32(Len(hkinds)) \o headers \o colls \o EncI64(4 + Len(bodies)) \o EncI32(k)
        \o bodies \o EncI32(0)

\* the five opaque fields behind the partition count
WOpaque == EncStr(T.A) \o EncI64(0) \o EncI32(0) \o EncStr(T.B) \o EncI32(0)
WPartitions == EncI32(1) \o WOpaque

\* a partition record: the key, two opaque integers, the inner count and
\* the pairs <<level-key, value>>
WPartitionRecord(key, pairs) ==
  EncStr(key) \o EncI32(7) \o EncI32(8) \o EncI32(Len(pairs))
    \o Concat([i \in 1..Len(pairs) |-> EncStr(pairs[i][1]) \o EncI32(pairs[i][2])])

WHeader(version, map_name) ==
  EncI32(13) \o EncI32(version) \o EncI32(1) \o EncStr(map_name) \o EncStr(T.A)
    \o EncStr(T.B) \o EncI32(0) \o EncI64(0) \o <<0>> \o EncI32(0) \o EncStr(<<>>)
    \o EncI32(0) \o EncStr(T.A) \o EncI32(1) \o Zeros(20) \o EncI32(0)

\* a zlib stream of one stored block
WZlib(data) ==
  LET sum == Adler32(data) IN
  <<120, 1, 1>> \o EncLE(Len(data), 2) \o EncLE(65535 - Len(data), 2) \o data
    \o <<sum[1] \div 256, sum[1] % 256, sum[2] \div 256, sum[2] % 256>>

\* package signature, padding, max chunk size, padding, current chunk size,
\* padding, compressed bytes
WChunk(z) ==
  <<193, 131, 42, 158>> \o Zeros(4) \o EncLE(131072, 4) \o Zeros(5) \o EncLE(Len(z), 4)
    \o Zeros(28) \o z

\* the body cut into n chunks
RECURSIVE WChunks(_, _)
WChunks(body, n) ==
  IF n <= 0 THEN <<>>
  ELSE LET h == Len(body) \div n IN
       WChunk(WZlib(SubSeq(body, 1, h))) \o WChunks(SubSeq(body, h + 1, Len(body)), n - 1)

\* the body of a file of num_levels levels; the name of the last level is
\* written when last_named
WBody(num_levels, last_named) ==
  Zeros(8) \o WPartitions \o EncI32(num_levels)
    \o Concat([i \in 1..num_levels |->
                 WLevel(i < num_levels \/ last_named, T.A, <<"Actor", "Component">>, 2, -1, 0)])

(***************************************************************************)
(* The inputs of the entry points.                                         *)
(***************************************************************************)
\* strings: ASCII, a 3-byte and a 4-byte UTF-8 character (the second a
\* surrogate pair in UTF-16) and an embedded NUL
StrAlphabet == {0, 72, 8364, 128512}
\* a string of up to n characters in one of its forms
WrittenItems(n) ==
  {[str |-> s, enc |-> e] : s \in SeqsOf(StrAlphabet, 0, n), e \in {"utf8", "utf16"}}
    \cup {[str |-> <<>>, enc |-> "empty"]}
\* up to k strings of up to n characters in all
RECURSIVE Written(_, _)
Written(k, n) ==
  IF k = 0 THEN {<<>>}
  ELSE {<<>>} \cup UNION {{<<w>> \o rest : rest \in Written(k - 1, n - Len(w.str))} :
                          w \in WrittenItems(n)}
WriteItem(w) == WriteString(w.str, w.enc)
WrittenBytes(written) == FlatMap(WriteItem, written)
\* up to MaxStrings strings of up to MaxStrLen characters in all, written
\* one after the other and read back by as many calls
StringScenarios ==
  {[written |-> w, calls |-> Len(w), raw |-> FALSE] :
     w \in Written(MaxStrings, MaxStrLen) \ {<<>>}}

\* streams that no writer has produced
S3 == EncI32(-6) \o EncUtf16(T.Hi) \o <<0, 0>>
S3Padded == EncI32(-6) \o EncUtf16(T.Hi) \o <<0, 0>> \o Zeros(6)
S3Units == EncI32(-3) \o EncUtf16(T.Hi) \o <<0, 0>>
RawStringStreams ==
  {S3, S3Padded, S3Units,
   EncI32(3) \o <<72, 105>>,               \* cut short
   EncI32(2) \o <<255, 0>>,                \* not UTF-8
   EncI32(-2) \o <<0, 216, 0, 0>>,         \* a lone surrogate
   <<3, 0>>}                               \* a length cut short

\* read_object_reference
Impls == {"ObjectReference", "ComponentHeader", "ActorHeader", "ActorObject"}
RefLevels == {T.X, T.A, <<>>}
RefPaths == {T.B, <<>>}
MapNames == {T.X, <<>>}
RefScenarios ==
  [impl : Impls, level : RefLevels, path : RefPaths, lenc : {"utf8", "utf16"},
   penc : {"utf8", "utf16"}, map_name : MapNames]
RefStream(a) == WriteString(a.level, a.lenc) \o WriteString(a.path, a.penc)

\* read_property: a property header with the type-tag under test
VariantNames ==
  {S.Bool, S.Int8, S.Int, S.Int64, S.UInt32, S.UInt64, S.Float, S.Double, S.Str, S.Name,
   S.Object, S.Interface, S.Enum, S.Byte, S.Text, S.Array, S.Map, S.Set, S.Struct}
RawTags ==
  {Tagged(t) : t \in VariantNames}
    \cup {S.Int, S.Property \o S.Int, Tagged(Tagged(S.Int)), S.Property \o Tagged(S.Int),
          Tagged(T.Foo), T.Foo, T.int, Tagged(T.int), Tagged(S.String), Tagged(S.SoftObject),
          S.Property, Tagged(T.Foo) \o S.Int}
TagScenarios == {[case |-> "tag", tag |-> t] : t \in RawTags}
TagStream(a) == WProp(T.A, a.tag, 4) \o Zeros(64)

\* read_property: a container with the element, key or value type under test
Containers == {"Array", "Set", "MapKey", "MapValue"}
ElementTypes == {Tagged(T.Foo), Tagged(S.UInt64), Tagged(S.Int)}
ContainerScenarios ==
  [case : {"container"}, container : Containers, etype : ElementTypes, count : 0..MaxCount]
ContainerStream(a) ==
  CASE a.container = "Array" -> WArray(T.A, a.etype, a.count, Zeros(16))
    [] a.container = "Set" -> WSet(T.A, a.etype, a.count, Zeros(16))
    [] a.container = "MapKey" -> WMap(T.A, a.etype, Tagged(S.Int), a.count, Zeros(16))
    [] a.container = "MapValue" -> WMap(T.A, Tagged(S.Int), a.etype, a.count, Zeros(16))

\* read_property: an object reference as the value
ObjectValueScenarios ==
  [case : {"object"}, level : RefLevels, path : RefPaths, map_name : MapNames]
ObjectValueStream(a) == WObject(T.A, a.level, a.path)

\* read_object: a body of one of the property lists, declared `delta` bytes
\* longer than it is (pl = 0: no property list at all), or with a negative
\* declared size `neg`, followed by a tail
NegativeSizes == {-1, -1000}
Tails == {"none", "zeros", "surrogates", "typed"}
ObjectScenarios ==
  {a \in [kind : {"Actor", "Component"}, type_path : {T.FGX, T.GameA},
          pl : 0..Len(PropListSamples), delta : (-2..MaxGap) \cup {12}, neg : NegativeSizes \cup {0},
          tail : Tails, ref_level : {T.X, T.A}] :
     /\ a.pl = 0 => a.delta = 0 /\ a.neg = 0
     /\ a.neg # 0 => a.delta = 0 /\ a.pl = 2 /\ a.tail = "zeros"
     /\ a.kind = "Component" => a.ref_level = T.X}
ObjectActorPart(a) == WActorPart(a.kind, a.ref_level, T.B, <<WRef(T.A, T.B)>>)
ObjectContent(a) == IF a.pl = 0 THEN <<>> ELSE PropListSamples[a.pl].bytes \o WNone
ObjectDeclared(a) ==
  IF a.neg # 0 THEN a.neg ELSE Len(ObjectActorPart(a)) + Len(ObjectContent(a)) + a.delta
ObjectTail(a) ==
  CASE a.tail = "none" -> <<>>
    [] a.tail = "zeros" -> Zeros(2 * MaxGap + 8)
    [] a.tail = "surrogates" -> [i \in 1..(2 * MaxGap + 8) |-> 216]
    [] a.tail = "typed" ->
         EncStr(Tagged(S.Int)) \o EncI32(4) \o EncI32(0) \o <<0>> \o EncI32(7) \o WNone
           \o Zeros(8)
ObjectStream(a) ==
  WObjectBody(ObjectDeclared(a), ObjectActorPart(a) \o ObjectContent(a)) \o ObjectTail(a)
\* the position right after the sentinel of the property list
ObjectListEnd(a) == 12 + Len(ObjectActorPart(a)) + Len(ObjectContent(a))
ObjectHeaderFor(a) ==
  IF a.kind = "Actor"
  THEN [kind |-> "Actor", v |-> [ActorHeaderDefault EXCEPT !.type_path = a.type_path]]
  ELSE [kind |-> "Component", v |-> [ComponentHeaderDefault EXCEPT !.type_path = a.type_path]]

\* read_level: the header kinds, the declared object count, the collectables
\* and a declared size of the headers and collectables that is off by one
LevelScenarios ==
  {a \in [hkinds : SeqsOf({"Actor", "Component"}, 0, MaxObjects), k : 0..(MaxObjects + 1),
          c : -1..1, is_last_level : BOOLEAN, size_delta : -1..1] :
     a.size_delta # 0 => a.k = Len(a.hkinds) /\ ~a.is_last_level}
LevelStream(a) == WLevel(~a.is_last_level, T.A, a.hkinds, a.k, a.c, a.size_delta)

\* read_file: the version of the header, a file cut inside its header, the
\* chunks and the levels of the body
FileVersions ==
  {-1, 0} \cup ((MIN_SAVE_FILE_VERSION - 1)..(MIN_SAVE_FILE_VERSION + 1))
FileScenarios ==
  {a \in [version : FileVersions, cut : BOOLEAN, nchunks : 0..MaxChunks,
          num_levels : 0..MaxLevels, last_named : BOOLEAN] :
     (a.cut \/ a.num_levels = 0) => a.last_named}
FileStream(a) ==
  IF a.cut THEN SubSeq(WHeader(a.version, T.X), 1, 10)
  ELSE WHeader(a.version, T.X) \o WChunks(WBody(a.num_levels, a.last_named), a.nchunks)

\* read_partitions: the declared count n and the n - 1 records written (none
\* for n <= 1), each a key and the pairs of one of the samples, with 16 zero
\* bytes behind them, which read as one more record
PairSamples ==
  << <<>>, << <<T.A, 1>> >>, << <<T.A, 1>>, <<T.A, 2>> >>, << <<T.A, 1>>, <<T.B, 2>> >> >>
PartitionRecords == [key : {T.A, T.B}, pairs : 1..Len(PairSamples)]
PartitionScenarios ==
  {a \in [n : -1..(MaxCount + 1), records : SeqsOf(PartitionRecords, 0, MaxCount)] :
     Len(a.records) = IF a.n > 1 THEN a.n - 1 ELSE 0}
PartitionStream(a) ==
  EncI32(a.n) \o WOpaque
    \o Concat([i \in 1..Len(a.records) |->
                 WPartitionRecord(a.records[i].key, PairSamples[a.records[i].pairs])])
    \o Zeros(16)

\* read_level_object_header: the discriminator d in front of the fields of
\* an actor header (d = 1) or of a component header
Discriminators == {-1, 0, 1, 2, 256}
HeaderScenarios == [d : Discriminators, level : {T.X, T.A}]
HeaderStream(a) ==
  EncI32(a.d)
    \o SubSeq(WObjectHeader(IF a.d = 1 THEN "Actor" ELSE "Component", T.GameA, a.level, T.B),
              5, Len(WObjectHeader(IF a.d = 1 THEN "Actor" ELSE "Component", T.GameA,
                                   a.level, T.B)))

\* read_property: a Bool or a number with the guid flag `flag`, and 16 code
\* units of guid behind a flag that is not 0; the Bool is written in front
\* of its flag and a number behind it
NumericKinds == {S.Int8, S.Int, S.Int64, S.UInt32, S.UInt64, S.Float, S.Double}
ValueWidth(kind) ==
  CASE kind \in {S.Bool, S.Int8} -> 1
    [] kind \in {S.Int, S.UInt32, S.Float} -> 4
    [] kind \in {S.Int64, S.UInt64, S.Double} -> 8
GuidScenarios ==
  {a \in [case : {"guid"}, kind : NumericKinds \cup {S.Bool}, flag : {0, 1, 255},
          v : {1, 42}] :
     a.v = 42 <=> a.kind # S.Bool}
WGuid(flag) == <<flag>> \o (IF flag = 0 THEN <<>> ELSE Concat([i \in 1..16 |-> <<65, 0>>]))
WValue(a) == EncLE(a.v, ValueWidth(a.kind))
GuidStream(a) ==
  WProp(T.A, Tagged(a.kind), ValueWidth(a.kind))
    \o (IF a.kind = S.Bool THEN WValue(a) \o WGuid(a.flag) ELSE WGuid(a.flag) \o WValue(a))

\* read_property: an array of n bytes 11, 12, .. under the name of the fog
\* of war, or under another name, with the sentinel behind it
FogScenarios == [case : {"fog"}, name : {S.mFogOfWarRawData, T.A}, n : 0..(4 * MaxCount + 1)]
FogBytes(n) == [i \in 1..n |-> 10 + i]
FogStream(a) == WArray(a.name, Tagged(S.Byte), a.n, FogBytes(a.n)) \o WNone


\* read_property: a map of n pairs under a property name and a parent type.
\* A Struct key is written in the shape that the name and the parent type
\* call for, an Object value under the BGU subsystem as four floats and a
\* string; pair i carries the numbers i and 10 + i
MapNamesUnderTest == {S.Destroyed_Foliage_Transform, S.mSaveData, S.mUnresolvedSaveData, T.A}
MapParents == {None, Some(S.BGU_Subsystem_C), Some(T.GameA)}
MapScenarios ==
  [case : {"map"}, name : MapNamesUnderTest, parent : MapParents, ktype : {S.Struct, S.Int},
   vtype : {S.Object, S.Int}, n : 0..(MaxCount + 1)]
StructKeyShape(name, parent) ==
  IF name = S.Destroyed_Foliage_Transform THEN "DoubleVector"
  ELSE IF parent = Some(S.BGU_Subsystem_C) THEN "FloatVector"
  ELSE IF name \in {S.mSaveData, S.mUnresolvedSaveData} THEN "IntVector"
  ELSE "Properties"
WMapKey(a, i) ==
  IF a.ktype = S.Int THEN EncI32(i)
  ELSE CASE StructKeyShape(a.name, a.parent) = "DoubleVector" ->
              EncLE(i, 8) \o EncLE(i, 8) \o EncLE(i, 8)
         [] StructKeyShape(a.name, a.parent) \in {"FloatVector", "IntVector"} ->
              EncI32(i) \o EncI32(i) \o EncI32(i)
         [] OTHER -> WInt(T.B, i) \o WNone
WMapValue(a, i) ==
  IF a.vtype = S.Int THEN EncI32(10 + i)
  ELSE IF a.parent = Some(S.BGU_Subsystem_C)
  THEN EncI32(10 + i) \o EncI32(20 + i) \o EncI32(30 + i) \o EncI32(40 + i) \o EncStr(T.Hi)
  ELSE WRef(T.A, T.B)
WMapPair(a, i) == WMapKey(a, i) \o WMapValue(a, i)
MapStream(a) ==
  WMap(a.name, Tagged(a.ktype), Tagged(a.vtype), a.n,
       Concat([i \in 1..a.n |-> WMapPair(a, i)]))
    \o WNone
\* the position of the first pair
MapPairsStart(a) == Len(MapStream(a)) - Len(WNone) - Len(Concat([i \in 1..a.n |-> WMapPair(a, i)]))

\* read_chunks: chunks of the declared sizes, chunk k of the bytes 10 * k + 1,
\* 10 * k + 2, .., in a file that has lost its last `cut` bytes, which are
\* bytes of the last chunk
ChunkSizes == {0, 1, 3}
WholeChunk(k, size) == WChunk([i \in 1..size |-> 10 * k + i])
ChunkScenarios ==
  {a \in [sizes : SeqsOf(ChunkSizes, 0, MaxChunks), cut : 0..(Len(WholeChunk(1, 3)) - 1)] :
     IF a.sizes = <<>> THEN a.cut = 0
     ELSE a.cut < Len(WholeChunk(1, a.sizes[Len(a.sizes)]))}
WholeChunks(a) == Concat([k \in 1..Len(a.sizes) |-> WholeChunk(k, a.sizes[k])])
ChunkStream(a) == SubSeq(WholeChunks(a), 1, Len(WholeChunks(a)) - a.cut)

\* read_property: a Text of the history type h; the source text and the
\* values of the nargs arguments are texts of the history type 0
HistoryTypes == {0, 1, 2, 3, 10, 11, 255}
TextScenarios ==
  {a \in [case : {"text"}, h : HistoryTypes, nargs : 0..MaxCount] :
     a.nargs > 0 => a.h \in {1, 3}}
WBaseText(value) == EncI32(0) \o <<0>> \o EncStr(T.A) \o EncStr(T.B) \o EncStr(value)
WTextArgument(i) == EncStr(T.A) \o <<4>> \o WBaseText(T.Hi)
WText(a) ==
  EncI32(1) \o <<a.h>>
    \o CASE a.h = 0 -> EncStr(T.A) \o EncStr(T.B) \o EncStr(T.Hi)
          [] a.h \in {1, 3} ->
               WBaseText(T.Foo) \o EncI32(a.nargs)
                 \o Concat([i \in 1..a.nargs |-> WTextArgument(i)])
          [] a.h = 10 -> WBaseText(T.Foo) \o <<7>>
          [] a.h = 11 -> EncStr(T.A) \o EncStr(T.B)
          [] OTHER -> EncI32(1) \o EncStr(T.Hi)
TextStream(a) == WProp(T.A, Tagged(S.Text), Len(WText(a))) \o <<0>> \o WText(a) \o WNone
(***************************************************************************)
(* The state.                                                              *)
(***************************************************************************)
VARIABLES
  op,        \* the entry point that was called
  arg,       \* what the input stream was written from
  stream,    \* the bytes under the cursor
  pos,       \* the position of the cursor
  pc,        \* where the decoder is
  err,       \* the ParseError returned
  header,    \* the Header of the save
  strs,      \* the strings returned so far
  ref,       \* the referrable handed to read_object_reference
  prop,      \* the Option<Property> returned by read_property
  object,    \* the Object of read_object
  obj_loc,   \* the arguments and locals of read_object
  level,     \* the Level of read_level
  lvl_loc,   \* the arguments and locals of read_level
  levels,    \* the levels of read_levels
  lvls_loc,  \* the locals of read_levels
  file,      \* the locals of read_file
  save       \* the Save returned by read_file

vars == <<op, arg, stream, pos, pc, err, header, strs, ref, prop, object, obj_loc,
          level, lvl_loc, levels, lvls_loc, file, save>>

\* the call `self.read_object(object_header, header)`
ObjectCall(object_header) == [object_header |-> object_header, gap_skip |-> 0]

StartWithin(o, a, s, h, label, size) ==
  /\ op = o /\ arg = a /\ stream = s /\ pos = 0 /\ pc = label /\ err = NoErr
  /\ header = h /\ strs = <<>> /\ prop = None /\ levels = <<>>
  /\ lvls_loc = [num_levels |-> 0]
  /\ file = [file_size_bytes |-> size, chunks |-> <<>>, partitions |-> <<>>]
  /\ save = <<>>

Start(o, a, s, h, label) == StartWithin(o, a, s, h, label, 0)

Idle(r, object_header, is_last_level) ==
  /\ ref = r
  /\ object = ObjectFor(object_header)
  /\ obj_loc = ObjectCall(object_header)
  /\ level = LevelDefault
  /\ lvl_loc = [LevelCall(0, 0) EXCEPT !.is_last_level = is_last_level]

NoObjectHeader == [kind |-> "Component", v |-> ComponentHeaderDefault]

\* the object a referrable starts from
RefDefault(impl) ==
  CASE impl = "ObjectReference" -> ObjectReferenceDefault
    [] impl = "ComponentHeader" -> ComponentHeaderDefault
    [] impl = "ActorHeader" -> ActorHeaderDefault
    [] impl = "ActorObject" -> ActorObjectDefault

Init ==
  \/ \E a \in StringScenarios :
       /\ Start("read_length_prefixed_string", a, WrittenBytes(a.written), HeaderDefault,
                "string")
       /\ Idle(ObjectReferenceDefault, NoObjectHeader, FALSE)
  \/ \E s \in RawStringStreams :
       /\ Start("read_length_prefixed_string", [written |-> <<>>, calls |-> 1, raw |-> TRUE],
                s, HeaderDefault, "string")
       /\ Idle(ObjectReferenceDefault, NoObjectHeader, FALSE)
  \/ \E a \in {b \in StringScenarios : b.calls = 1} :
       /\ Start("seek_length_prefixed_string", a, WrittenBytes(a.written), HeaderDefault,
                "seek_string")
       /\ Idle(ObjectReferenceDefault, NoObjectHeader, FALSE)
  \/ \E s \in RawStringStreams :
       /\ Start("seek_length_prefixed_string", [written |-> <<>>, calls |-> 1, raw |-> TRUE],
                s, HeaderDefault, "seek_string")
       /\ Idle(ObjectReferenceDefault, NoObjectHeader, FALSE)
  \/ \E a \in RefScenarios :
       /\ Start("read_object_reference", a, RefStream(a), HeaderFor(a.map_name),
                "reference")
       /\ Idle(RefDefault(a.impl), NoObjectHeader, FALSE)
  \/ \E a \in TagScenarios :
       /\ Start("read_property", a, TagStream(a), HeaderFor(T.X), "property")
       /\ Idle(ObjectReferenceDefault, NoObjectHeader, FALSE)
  \/ \E a \in ContainerScenarios :
       /\ Start("read_property", a, ContainerStream(a), HeaderFor(T.X), "property")
       /\ Idle(ObjectReferenceDefault, NoObjectHeader, FALSE)
  \/ \E a \in GuidScenarios :
       /\ Start("read_property", a, GuidStream(a), HeaderFor(T.X), "property")
       /\ Idle(ObjectReferenceDefault, NoObjectHeader, FALSE)
  \/ \E a \in FogScenarios :
       /\ Start("read_property", a, FogStream(a), HeaderFor(T.X), "property")
       /\ Idle(ObjectReferenceDefault, NoObjectHeader, FALSE)
  \/ \E a \in TextScenarios :
       /\ Start("read_property", a, TextStream(a), HeaderFor(T.X), "property")
       /\ Idle(ObjectReferenceDefault, NoObjectHeader, FALSE)
  \/ \E a \in MapScenarios :
       /\ Start("read_property", a, MapStream(a), HeaderFor(T.X), "property")
       /\ Idle(ObjectReferenceDefault, NoObjectHeader, FALSE)
  \/ \E a \in ObjectValueScenarios :
       /\ Start("read_property", a, ObjectValueStream(a), HeaderFor(a.map_name), "property")
       /\ Idle(ObjectReferenceDefault, NoObjectHeader, FALSE)
  \/ \E a \in ObjectScenarios :
       /\ Start("read_object", a, ObjectStream(a), HeaderFor(T.X), "object")
       /\ Idle(ObjectReferenceDefault, ObjectHeaderFor(a), FALSE)
  \/ \E a \in LevelScenarios :
       /\ Start("read_level", a, LevelStream(a), HeaderFor(T.X), "level")
       /\ Idle(ObjectReferenceDefault, NoObjectHeader, a.is_last_level)
  \/ \E a \in FileScenarios :
       /\ Start("read_file", a, FileStream(a), HeaderDefault, "file")
       /\ Idle(ObjectReferenceDefault, NoObjectHeader, FALSE)
  \/ \E a \in ChunkScenarios :
       /\ StartWithin("read_chunks", a, ChunkStream(a), HeaderDefault, "file_chunks",
                      Len(ChunkStream(a)))
       /\ Idle(ObjectReferenceDefault, NoObjectHeader, FALSE)
  \/ \E a \in HeaderScenarios :
       /\ Start("read_level_object_header", a, HeaderStream(a), HeaderFor(T.X),
                "level_object_header")
       /\ Idle(ObjectReferenceDefault, NoObjectHeader, FALSE)
  \/ \E a \in PartitionScenarios :
       /\ Start("read_partitions", a, PartitionStream(a), HeaderDefault, "partitions")
       /\ Idle(ObjectReferenceDefault, NoObjectHeader, FALSE)

(***************************************************************************)
(* The steps.                                                              *)
(***************************************************************************)
\* `?`: the error is returned to the caller of the entry point
Fail(r) == pc' = "failed" /\ err' = r.err /\ pos' = r.pos

\* one call of read_length_prefixed_string
ReadString ==
  /\ pc = "string"
  /\ LET r == read_length_prefixed_string(stream, pos) IN
       IF ~r.ok THEN Fail(r) /\ UNCHANGED strs
       ELSE /\ strs' = Append(strs, r.val)
            /\ pos' = r.pos
            /\ pc' = IF Len(strs) + 1 = arg.calls THEN "done" ELSE "string"
            /\ UNCHANGED err
  /\ UNCHANGED <<op, arg, stream, header, ref, prop, object, obj_loc, level, lvl_loc,
                 levels, lvls_loc, file, save>>

\* one call of seek_length_prefixed_string
SeekLengthPrefixedString ==
  /\ pc = "seek_string"
  /\ LET r == seek_length_prefixed_string(stream, pos) IN
       IF ~r.ok THEN Fail(r) ELSE pos' = r.pos /\ pc' = "done" /\ UNCHANGED err
  /\ UNCHANGED <<op, arg, stream, header, strs, ref, prop, object, obj_loc, level, lvl_loc,
                 levels, lvls_loc, file, save>>

\* one call of read_object_reference
ReadObjectReference ==
  /\ pc = "reference"
  /\ LET r == read_object_reference(stream, pos, arg.impl, ref, header.map_name) IN
       IF ~r.ok THEN Fail(r) /\ UNCHANGED ref
       ELSE ref' = r.val /\ pos' = r.pos /\ pc' = "done" /\ UNCHANGED err
  /\ UNCHANGED <<op, arg, stream, header, strs, prop, object, obj_loc, level, lvl_loc,
                 levels, lvls_loc, file, save>>

\* the parent_type that read_property is called with
ParentTypeOf(a) == IF a.case = "map" THEN a.parent ELSE None

\* one call of read_property
ReadProperty ==
  /\ pc = "property"
  /\ LET r == read_property(stream, pos, header, ParentTypeOf(arg)) IN
       IF ~r.ok THEN Fail(r) /\ UNCHANGED prop
       ELSE prop' = r.val /\ pos' = r.pos /\ pc' = "done" /\ UNCHANGED err
  /\ UNCHANGED <<op, arg, stream, header, strs, ref, object, obj_loc, level, lvl_loc,
                 levels, lvls_loc, file, save>>

\* `Ok(level)`: to the caller of the entry point, or onto the levels of
\* read_levels, which goes on with the next level
ReturnLevel(l) ==
  /\ level' = l
  /\ IF op = "read_level"
     THEN pc' = "done" /\ UNCHANGED <<levels, lvl_loc>>
     ELSE /\ levels' = Append(levels, l)
          /\ IF Len(levels) + 1 < lvls_loc.num_levels
             THEN pc' = "level" /\ lvl_loc' = LevelCall(Len(levels) + 1, lvls_loc.num_levels)
             ELSE pc' = "file_end" /\ UNCHANGED lvl_loc

\* `Ok(object)`: to the caller of the entry point, or onto the objects of
\* read_level, which goes on with the next object
ReturnObject(o) ==
  /\ object' = o
  /\ IF op = "read_object"
     THEN pc' = "done" /\ UNCHANGED level
     ELSE /\ level' = [level EXCEPT !.objects = Append(@, o)]
          /\ pc' = IF Len(level.objects) + 1 < lvl_loc.num_objects
                   THEN "level_object" ELSE "level_end"

\* read_object, to the check that the object is nulled
ObjectBegin ==
  /\ pc = "object"
  /\ LET r == read_object_meta(stream, pos, object, header.map_name) IN
       IF ~r.ok THEN Fail(r) /\ UNCHANGED <<object, level>>
       ELSE /\ pos' = r.pos
            /\ UNCHANGED err
            /\ IF IsNulled(r.pos, r.val.v.start_byte, r.val.v.size_bytes)
               THEN ReturnObject(set_should_be_nulled(r.val))
               ELSE object' = r.val /\ pc' = "object_properties" /\ UNCHANGED level
  /\ UNCHANGED <<op, arg, stream, header, strs, ref, prop, obj_loc, lvl_loc, levels,
                 lvls_loc, file, save>>

\* one turn of `while let Some(property) = self.read_property(..)?`
ObjectProperty ==
  /\ pc = "object_properties"
  /\ LET r == read_property(stream, pos, header,
                            Some(get_type_path(obj_loc.object_header))) IN
       IF ~r.ok THEN Fail(r) /\ UNCHANGED object
       ELSE /\ pos' = r.pos
            /\ UNCHANGED err
            /\ IF r.val.some
               THEN object' = add_property(object, r.val.v) /\ pc' = "object_properties"
               ELSE pc' = "object_end" /\ UNCHANGED object
  /\ UNCHANGED <<op, arg, stream, header, strs, ref, prop, obj_loc, level, lvl_loc,
                 levels, lvls_loc, file, save>>

\* read_object after its properties, for a declared size that is not
\* negative: the check of the length and the gap
ObjectEnd ==
  /\ pc = "object_end"
  /\ object.v.size_bytes >= 0
  /\ IF Overran(object.v.start_byte + object.v.size_bytes, pos)
     THEN /\ Fail(Err(pos, ParseError("ObjectLength", get_type_path(obj_loc.object_header))))
          /\ UNCHANGED <<object, obj_loc, level>>
     ELSE LET r == SkipGap(stream, pos, object.v.start_byte + object.v.size_bytes - pos,
                           get_type_path(obj_loc.object_header)) IN
            IF ~r.ok THEN Fail(r) /\ UNCHANGED <<object, obj_loc, level>>
            ELSE /\ pos' = r.pos
                 /\ obj_loc' = [obj_loc EXCEPT !.gap_skip = r.pos - pos]
                 /\ UNCHANGED err
                 /\ ReturnObject(object)
  /\ UNCHANGED <<op, arg, stream, header, strs, ref, prop, lvl_loc, levels, lvls_loc,
                 file, save>>

\* read_object after its properties, for a negative declared size, which
\* `as u64` turns into 2^64 + size.  When start_byte + size >= 0 the sum
\* overflows: a build with overflow checks panics, a build without wraps to
\* start_byte + size, which is below the position.  Otherwise the sum is
\* above every position and so is missing_bytes: 8 bytes are skipped for a
\* FactoryGame type, and `vec![0; missing_bytes]` of read_hex panics.
ObjectEndNegative ==
  /\ pc = "object_end"
  /\ object.v.size_bytes < 0
  /\ IF object.v.start_byte + object.v.size_bytes >= 0
     THEN /\ \/ pc' = "panicked" /\ UNCHANGED <<err, pos>>
             \/ Fail(Err(pos, ParseError("ObjectLength",
                                          get_type_path(obj_loc.object_header))))
          /\ UNCHANGED <<object, level, obj_loc>>
     ELSE IF StartsWith(get_type_path(obj_loc.object_header), S.FactoryGame_FG)
     THEN /\ pos' = SeekRelative(stream, pos, 8).pos
          /\ obj_loc' = [obj_loc EXCEPT !.gap_skip = 8]
          /\ UNCHANGED err
          /\ ReturnObject(object)
     ELSE pc' = "panicked" /\ UNCHANGED <<err, pos, object, level, obj_loc>>
  /\ UNCHANGED <<op, arg, stream, header, strs, ref, prop, lvl_loc, levels, lvls_loc,
                 file, save>>

\* read_level, to the loop over its object headers
LevelBegin ==
  /\ pc = "level"
  /\ LET r == ReadRecord(LevelHead(lvl_loc.is_last_level, header.map_name), stream, pos,
                         lvl_loc) IN
       IF ~r.ok THEN Fail(r) /\ UNCHANGED <<level, lvl_loc>>
       ELSE /\ level' = [LevelDefault EXCEPT !.name = r.val.name]
            /\ lvl_loc' = r.val
            /\ pos' = r.pos
            /\ pc' = IF r.val.num_object_headers > 0 THEN "level_object_header"
                     ELSE "level_collectables"
            /\ UNCHANGED err
  /\ UNCHANGED <<op, arg, stream, header, strs, ref, prop, object, obj_loc, levels,
                 lvls_loc, file, save>>

\* one turn of `for _i in 0..num_object_headers`, or one call of
\* read_level_object_header
LevelObjectHeader ==
  /\ pc = "level_object_header"
  /\ LET r == read_level_object_header(stream, pos, header.map_name) IN
       IF ~r.ok THEN Fail(r) /\ UNCHANGED level
       ELSE /\ level' = [level EXCEPT !.object_headers = Append(@, r.val)]
            /\ pos' = r.pos
            /\ pc' = IF op = "read_level_object_header" THEN "done"
                     ELSE IF Len(level.object_headers) + 1 < lvl_loc.num_object_headers
                     THEN "level_object_header" ELSE "level_collectables"
            /\ UNCHANGED err
  /\ UNCHANGED <<op, arg, stream, header, strs, ref, prop, object, obj_loc, lvl_loc,
                 levels, lvls_loc, file, save>>

\* the collectables, the size of the objects and their count
LevelCollectables ==
  /\ pc = "level_collectables"
  /\ LET r == ReadRecord(LevelCollectablesAndCount(
                           pos,
                           lvl_loc.level_start_byte
                             + lvl_loc.object_headers_and_collectables_size_bytes - 4,
                           header.map_name),
                         stream, pos, lvl_loc) IN
       IF ~r.ok THEN Fail(r) /\ UNCHANGED <<level, lvl_loc>>
       ELSE /\ level' = [level EXCEPT !.collectables = r.val.collectables]
            /\ lvl_loc' = r.val
            /\ pos' = r.pos
            /\ pc' = IF r.val.num_objects > 0 THEN "level_object" ELSE "level_end"
            /\ UNCHANGED err
  /\ UNCHANGED <<op, arg, stream, header, strs, ref, prop, object, obj_loc, levels,
                 lvls_loc, file, save>>

\* no header taken for the last index either
NoHeaderFromLast(object_headers, i) == i + 1 >= Len(object_headers)

\* `level.object_headers.get(i as usize)` is None
NoHeaderAt(object_headers, i) == i >= Len(object_headers)

\* one turn of `for i in 0..num_objects`, to the call of read_object
LevelObject ==
  /\ pc = "level_object"
  /\ IF NoHeaderAt(level.object_headers, Len(level.objects))
     THEN /\ Fail(Err(pos, ParseError("MissingObjectHeader", level.name)))
          /\ UNCHANGED <<object, obj_loc>>
     ELSE /\ obj_loc' = ObjectCall(level.object_headers[Len(level.objects) + 1])
          /\ object' = ObjectFor(level.object_headers[Len(level.objects) + 1])
          /\ pc' = "object"
          /\ UNCHANGED <<err, pos>>
  /\ UNCHANGED <<op, arg, stream, header, strs, ref, prop, level, lvl_loc, levels,
                 lvls_loc, file, save>>

\* the repeated collectables, and the return of the level
LevelEnd ==
  /\ pc = "level_end"
  /\ LET r == ReadRecord(SecondCollectables, stream, pos, <<>>) IN
       IF ~r.ok THEN Fail(r) /\ UNCHANGED <<level, levels, lvl_loc>>
       ELSE pos' = r.pos /\ UNCHANGED err /\ ReturnLevel(level)
  /\ UNCHANGED <<op, arg, stream, header, strs, ref, prop, object, obj_loc, lvls_loc,
                 file, save>>

\* read_file: the file is read and its header decoded
FileHeader ==
  /\ pc = "file"
  /\ LET r == read_header(stream, pos) IN
       IF ~r.ok THEN Fail(r) /\ UNCHANGED header
       ELSE header' = r.val /\ pos' = r.pos /\ pc' = "file_version" /\ UNCHANGED err
  /\ file' = [file EXCEPT !.file_size_bytes = Len(stream)]
  /\ UNCHANGED <<op, arg, stream, strs, ref, prop, object, obj_loc, level, lvl_loc,
                 levels, lvls_loc, save>>

\* the minimum version taken as unsupported too
IsUnsupportedInclusive(save_file_version) == save_file_version <= MIN_SAVE_FILE_VERSION

\* `if header.save_file_version < MIN_SAVE_FILE_VERSION`
IsUnsupported(save_file_version) == save_file_version < MIN_SAVE_FILE_VERSION

\* read_file: the check of the version
FileVersion ==
  /\ pc = "file_version"
  /\ IF IsUnsupported(header.save_file_version)
     THEN Fail(Err(pos, ParseError("UnsupportedFileVersion",
                                   <<header.save_file_version, MIN_SAVE_FILE_VERSION>>)))
     ELSE pc' = "file_chunks" /\ UNCHANGED <<err, pos>>
  /\ UNCHANGED <<op, arg, stream, header, strs, ref, prop, object, obj_loc, level,
                 lvl_loc, levels, lvls_loc, file, save>>

\* read_chunks: one turn of `while self.stream_position()? < stop_byte`
FileChunk ==
  /\ pc = "file_chunks"
  /\ pos < file.file_size_bytes
  /\ LET r == read_chunk(stream, pos) IN
       IF ~r.ok THEN Fail(r) /\ UNCHANGED file
       ELSE /\ file' = [file EXCEPT !.chunks = Append(@, r.val)]
            /\ pos' = r.pos
            /\ UNCHANGED <<err, pc>>
  /\ UNCHANGED <<op, arg, stream, header, strs, ref, prop, object, obj_loc, level,
                 lvl_loc, levels, lvls_loc, save>>

\* the body was decompressed: a cursor is made over it, 8 bytes are skipped
\* and the partitions are read
FileBodyRead(body_bytes) ==
  IF ~body_bytes.ok THEN Fail(Err(pos, body_bytes.err)) /\ UNCHANGED <<stream, file>>
  ELSE /\ stream' = body_bytes.val
       /\ LET r == read_partitions(body_bytes.val, 8) IN
            IF ~r.ok THEN Fail(r) /\ UNCHANGED file
            ELSE /\ file' = [file EXCEPT !.partitions = r.val]
                 /\ pos' = r.pos
                 /\ pc' = "levels"
                 /\ UNCHANGED err

\* the end of read_chunks: `Ok(chunks)` to the caller of the entry point, or
\* to read_file, which goes on with the decompression of the chunks and the
\* partitions
FileBody ==
  /\ pc = "file_chunks"
  /\ pos >= file.file_size_bytes
  /\ IF op = "read_chunks"
     THEN pc' = "done" /\ UNCHANGED <<stream, pos, err, file>>
     ELSE FileBodyRead(InflateAll(file.chunks))
  /\ UNCHANGED <<op, arg, header, strs, ref, prop, object, obj_loc, level, lvl_loc,
                 levels, lvls_loc, save>>

\* one call of read_partitions
ReadPartitions ==
  /\ pc = "partitions"
  /\ LET r == read_partitions(stream, pos) IN
       IF ~r.ok THEN Fail(r) /\ UNCHANGED file
       ELSE file' = [file EXCEPT !.partitions = r.val] /\ pos' = r.pos /\ pc' = "done"
              /\ UNCHANGED err
  /\ UNCHANGED <<op, arg, stream, header, strs, ref, prop, object, obj_loc, level,
                 lvl_loc, levels, lvls_loc, save>>

\* read_levels, to the call of read_level for the first level
LevelsBegin ==
  /\ pc = "levels"
  /\ LET r == ReadInt(stream, pos, 4, TRUE) IN
       IF ~r.ok THEN Fail(r) /\ UNCHANGED <<lvls_loc, lvl_loc>>
       ELSE /\ lvls_loc' = [num_levels |-> r.val]
            /\ pos' = r.pos
            /\ UNCHANGED err
            /\ IF r.val > 0
               THEN pc' = "level" /\ lvl_loc' = LevelCall(0, r.val)
               ELSE pc' = "file_end" /\ UNCHANGED lvl_loc
  /\ levels' = <<>>
  /\ UNCHANGED <<op, arg, stream, header, strs, ref, prop, object, obj_loc, level,
                 file, save>>

\* read_file: `Ok(Save { header, partitions, levels })`
FileEnd ==
  /\ pc = "file_end"
  /\ save' = [header |-> header, partitions |-> file.partitions, levels |-> levels]
  /\ pc' = "done"
  /\ UNCHANGED <<op, arg, stream, pos, err, header, strs, ref, prop, object, obj_loc,
                 level, lvl_loc, levels, lvls_loc, file>>

Next ==
  \/ ReadString
  \/ SeekLengthPrefixedString
  \/ ReadObjectReference
  \/ ReadProperty
  \/ ObjectBegin
  \/ ObjectProperty
  \/ ObjectEnd
  \/ ObjectEndNegative
  \/ LevelBegin
  \/ LevelObjectHeader
  \/ LevelCollectables
  \/ LevelObject
  \/ LevelEnd
  \/ FileHeader
  \/ FileVersion
  \/ FileChunk
  \/ FileBody
  \/ LevelsBegin
  \/ FileEnd
  \/ ReadPartitions

Spec == Init /\ [][Next]_vars

(***************************************************************************)
(* Properties.                                                             *)
(***************************************************************************)
\* C1: read_file fails with UnsupportedFileVersion(found, 42) exactly when
\* the save_file_version of the header is below 42: the versions below 42
\* fail with that error and the versions from 42 on never do, and the error
\* is returned right after the header, before a chunk is read or
\* decompressed.
UnsupportedVersionExactlyBelowMin ==
  op = "read_file" =>
    /\ err.kind = "UnsupportedFileVersion" =>
         /\ ~arg.cut /\ arg.version < 42
         /\ err.arg = <<arg.version, 42>>
         /\ pc = "failed"
         /\ file.chunks = <<>>
         /\ stream = FileStream(arg)
         /\ pos = Len(WHeader(arg.version, T.X))
    /\ (~arg.cut /\ arg.version < 42 /\ pc \notin {"file", "file_version"}) =>
         err.kind = "UnsupportedFileVersion"

\* version 41 was rejected
Version41Rejected ==
  op = "read_file" /\ arg.version = 41 /\ arg.nchunks = 2 /\ pc = "failed"
    /\ err.kind = "UnsupportedFileVersion"

\* the names of the properties of a list
NamesOf(properties) == [i \in DOMAIN properties |-> properties[i].name]

\* the property lists held by the value of a property: the fields of a
\* struct, the elements of an array of structs, the struct keys and the
\* struct values of a map
PropertyLists(property) ==
  CASE property.value.kind = "Struct" /\ property.value.v.value.kind = "Properties" ->
         <<property.value.v.value.v>>
    [] property.value.kind = "Array" /\ property.value.v.type = S.Struct ->
         [i \in DOMAIN property.value.v.elements |-> property.value.v.elements[i].v.v]
    [] property.value.kind = "Map" ->
         (IF property.value.v.key_type = S.Struct
          THEN [i \in DOMAIN property.value.v.keys |-> property.value.v.keys[i].v]
          ELSE <<>>)
           \o (IF property.value.v.value_type = S.Struct
               THEN [i \in DOMAIN property.value.v.values |-> property.value.v.values[i].v]
               ELSE <<>>)
    [] OTHER -> <<>>

\* the names of the lists and of every list nested in them, an outer list
\* in front of the lists it holds
RECURSIVE AllLists(_)
AllLists(lists) ==
  IF lists = <<>> THEN <<>>
  ELSE <<NamesOf(Head(lists))>>
         \o AllLists(Concat([i \in DOMAIN Head(lists) |-> PropertyLists(Head(lists)[i])]))
         \o AllLists(Tail(lists))

\* C2: a property list read by looping on read_property stops at the first
\* property named "None" and takes nothing but that name: when the list of
\* an object is over the position is right after the sentinel and the list,
\* and the lists nested in it, hold the properties written in front of their
\* sentinels; no list ever holds a property named "None".
SentinelEndsEveryList ==
  /\ \A i \in DOMAIN AllLists(<<object.v.properties>>) :
       \A j \in DOMAIN AllLists(<<object.v.properties>>)[i] :
         AllLists(<<object.v.properties>>)[i][j] # S.None
  /\ (op = "read_object" /\ pc = "object_end") =>
       /\ pos = ObjectListEnd(arg)
       /\ AllLists(<<object.v.properties>>) = PropListSamples[arg.pl].lists

\* a list with the lists of a map was read to its sentinel, with a property
\* written behind it
NestedListsEnded ==
  op = "read_object" /\ pc = "object_end" /\ arg.pl = 6 /\ arg.tail = "typed"
    /\ Len(AllLists(<<object.v.properties>>)) = 3

\* the level name and the path name a referrable holds
LevelNameOf(impl, referrable) ==
  CASE impl = "ObjectReference" -> referrable.level_name
    [] impl \in {"ComponentHeader", "ActorHeader"} ->
         IF referrable.root_object.some THEN referrable.root_object.v ELSE <<>>
    [] impl = "ActorObject" -> referrable.parent_object_root
PathNameOf(impl, referrable) ==
  CASE impl = "ObjectReference" -> referrable.path_name
    [] impl \in {"ComponentHeader", "ActorHeader"} -> referrable.instance_name
    [] impl = "ActorObject" -> referrable.parent_object_name

\* C3: an object reference read by read_object_reference stores no level
\* name when the level name read is the map name of the save, and the level
\* name read otherwise; it always stores the path name read.  Checked for
\* the four referrables, for the value of an object property and for the
\* parent and the components of an actor.
LevelNameStoredUnlessMapName ==
  /\ (op = "read_object_reference" /\ pc = "done") =>
       /\ LevelNameOf(arg.impl, ref) = (IF arg.level = arg.map_name THEN <<>> ELSE arg.level)
       /\ arg.impl \in {"ComponentHeader", "ActorHeader"} =>
            ref.root_object.some = (arg.level # arg.map_name)
       /\ PathNameOf(arg.impl, ref) = arg.path
  /\ (op = "read_property" /\ pc = "done" /\ arg.case = "object") =>
       /\ prop.some
       /\ prop.v.value.kind = "Object"
       /\ prop.v.value.v =
            [level_name |-> IF arg.level = arg.map_name THEN <<>> ELSE arg.level,
             path_name |-> arg.path]
  /\ (op = "read_object" /\ arg.kind = "Actor"
        /\ pc \in {"object_properties", "object_end", "done"}) =>
       /\ object.v.parent_object_root = (IF arg.ref_level = T.X THEN <<>> ELSE arg.ref_level)
       /\ object.v.parent_object_name = T.B
       /\ object.v.components = <<[level_name |-> T.A, path_name |-> T.B]>>

\* a header was handed a reference to the map of the save, and stored no
\* level name
MapNameNotStored ==
  op = "read_object_reference" /\ pc = "done" /\ arg.impl = "ActorHeader"
    /\ arg.level = T.X /\ arg.map_name = T.X /\ arg.lenc = "utf16" /\ ~ref.root_object.some
    /\ ref.instance_name = T.B

\* C4: a level returned by read_level has as many object bodies as object
\* headers, and the i-th body is an actor exactly when the i-th header is.
BodiesMatchHeaders ==
  (op = "read_level" /\ pc = "done") =>
    /\ Len(level.objects) = Len(level.object_headers)
    /\ \A i \in DOMAIN level.objects :
         level.objects[i].kind = level.object_headers[i].kind

OverrunFailsWithObjectLength ==
  [][(pc = "object_end" /\ pos > object.v.start_byte + object.v.size_bytes) =>
       /\ pc' = "failed"
       /\ err'.kind = "ObjectLength"
       /\ err'.arg = get_type_path(obj_loc.object_header)]_vars

\* C7: a type-tag that is not a recognised name followed by "Property" makes
\* read_property fail with UnknownPropertyType: the property is not decoded.
UnknownTagFails ==
  (op = "read_property" /\ pc # "property" /\ arg.case = "tag"
     /\ arg.tag \notin {Tagged(t) : t \in VariantNames}) =>
    pc = "failed" /\ err.kind = "UnknownPropertyType"

\* the error of a container for a type it does not know
ContainerError(container) ==
  CASE container = "Array" -> "UnknownArrayElementType"
    [] container = "Set" -> "UnknownSetType"
    [] container = "MapKey" -> "UnknownMapKeyType"
    [] container = "MapValue" -> "UnknownMapValueType"

\* C8: an array, a set or a map declared with an element, key or value type
\* that is not known fails with the error of the container, for every
\* declared count, zero included.
UnknownContainerTypeFails ==
  (op = "read_property" /\ pc # "property" /\ arg.case = "container"
     /\ arg.etype = Tagged(T.Foo)) =>
    pc = "failed" /\ err.kind = ContainerError(arg.container)

\* C9: strings written one after the other as length-prefixed strings, in
\* UTF-8 with a positive length, in UTF-16 with a negative length or as the
\* length 0, are returned by as many calls of read_length_prefixed_string,
\* in order and without their NUL, each call leaving the position at the end
\* of the string it read and the last one at the end of the stream.
StringRoundTrip ==
  (op = "read_length_prefixed_string" /\ ~arg.raw) =>
    /\ pc # "failed"
    /\ Len(strs) <= Len(arg.written)
    /\ \A i \in DOMAIN strs : strs[i] = arg.written[i].str
    /\ pos = Len(WrittenBytes(SubSeq(arg.written, 1, Len(strs))))
    /\ pc = "done" => Len(strs) = Len(arg.written) /\ pos = Len(stream)

\* a string of a surrogate pair in UTF-16 and a string in UTF-8 were read
\* back
TwoEncodingsReadBack ==
  op = "read_length_prefixed_string" /\ ~arg.raw /\ pc = "done" /\ Len(strs) = 2
    /\ arg.written[1].enc = "utf16" /\ strs[1] = <<128512>>
    /\ arg.written[2].enc = "utf8" /\ strs[2] = <<8364>>

LastLevelNameSynthesized ==
  (op = "read_file" /\ ~arg.cut /\ arg.version >= 42 /\ arg.nchunks > 0
     /\ arg.num_levels > 0 /\ ~arg.last_named /\ pc \in {"done", "failed", "panicked"}) =>
    /\ pc = "done"
    /\ Len(save.levels) = arg.num_levels
    /\ save.levels[arg.num_levels].name = S.Level_ \o header.map_name
    /\ \A i \in 1..(arg.num_levels - 1) : save.levels[i].name = T.A

\* the keys of the partition records written
PartitionKeys(records) == {records[i].key : i \in DOMAIN records}

\* C12: read_partitions with the declared count N reads the five opaque
\* fields and then exactly N - 1 partition records, none when N <= 1: it
\* ends right behind the last of them; with N <= 1 the map is empty and the
\* cursor is right behind the opaque fields, and with N > 1 and distinct
\* keys the map has N - 1 entries.
PartitionCountMinusOne ==
  (op = "read_partitions" /\ pc # "partitions") =>
    /\ pc = "done"
    /\ pos = Len(stream) - 16
    /\ arg.n <= 1 => /\ DOMAIN file.partitions.partitions = {}
                     /\ pos = 4 + Len(WOpaque)
    /\ (arg.n > 1 /\ Cardinality(PartitionKeys(arg.records)) = Len(arg.records)) =>
         Cardinality(DOMAIN file.partitions.partitions) = arg.n - 1

TwoPartitionsRead ==
  op = "read_partitions" /\ pc = "done" /\ arg.n = 3
    /\ Cardinality(PartitionKeys(arg.records)) = 2
    /\ DOMAIN file.partitions.partitions = PartitionKeys(arg.records)

\* the last of the records or pairs written under the key
LastUnder(keys, key) ==
  CHOOSE i \in DOMAIN keys : keys[i] = key /\ \A j \in DOMAIN keys : keys[j] = key => j <= i

\* the levels map that the pairs of a record populate
LevelsOf(pairs) ==
  [level_key \in {pairs[i][1] : i \in DOMAIN pairs} |->
     pairs[LastUnder([i \in DOMAIN pairs |-> pairs[i][1]], level_key)][2]]

\* the partition decoded from the last record written under the key
DecodedUnder(records, key) ==
  LevelsOf(PairSamples[records[LastUnder([i \in DOMAIN records |-> records[i].key], key)].pairs])

\* C13: after read_partitions the partition stored under a key is the one
\* decoded from the record of that key: its levels map holds the pairs read
\* for the record, a later pair of a level-key overwriting an earlier one.
DecodedPartitionStored ==
  (op = "read_partitions" /\ pc = "done") =>
    \A key \in DOMAIN file.partitions.partitions :
      file.partitions.partitions[key].levels = DecodedUnder(arg.records, key)

\* C14: for every level that read_level returns, the bytes consumed from
\* right behind the declared size to the end of the headers and the
\* collectables (or the 4-byte pad) are as many as the declared size.
RegionSizeMatchesDeclared ==
  (op = "read_level" /\ pc = "done") =>
    lvl_loc.collectables_end - lvl_loc.level_start_byte
      = lvl_loc.object_headers_and_collectables_size_bytes

\* one turn of read_chunks has read a chunk of `preamble` bytes in front of
\* its compressed bytes, with the size of these at offset 17
ChunkRead(preamble) ==
  (pc = "file_chunks" /\ Len(file'.chunks) = Len(file.chunks) + 1) =>
    /\ Len(file'.chunks[Len(file'.chunks)])
         = LEUnsigned(SubSeq(stream, pos + 17 + 1, pos + 17 + 4))
    /\ file'.chunks[Len(file'.chunks)]
         = SubSeq(stream, pos + preamble + 1, pos + preamble + Len(file'.chunks[Len(file'.chunks)]))
    /\ pos' = pos + preamble + Len(file'.chunks[Len(file'.chunks)])

\* C15 as stated: read_chunk consumes 41 bytes of preamble, with the size
\* of the chunk at offset 17, and then the compressed bytes, so that a chunk
\* begins 41 bytes and the size of the chunk after the one in front of it.
ChunkPreamble41 == [][ChunkRead(41)]_vars

\* C15, amended: read_chunk consumes 49 bytes of preamble (4, 4, 4 and 5
\* bytes, the 4 bytes of the size at offset 17 and 28 bytes of padding) and
\* then the compressed bytes, so that a chunk begins 49 bytes and the size
\* of the chunk after the one in front of it.
ChunkPreamble49 == [][ChunkRead(49)]_vars

TwoChunksRead ==
  op = "read_file" /\ pc = "file_chunks" /\ Len(file.chunks) = 2 /\ pos = Len(stream)
    /\ Len(file.chunks[1]) > 0 /\ Len(file.chunks[2]) > 0

\* read_level_object_header has returned a Component header for the
\* discriminator 0, an Actor header for 1, and for every other d the error
\* `kind` of d with no byte read behind the discriminator
DiscriminatorDecides(kind) ==
  (op = "read_level_object_header" /\ pc # "level_object_header") =>
    CASE arg.d = 0 -> pc = "done" /\ level.object_headers[1].kind = "Component"
      [] arg.d = 1 -> pc = "done" /\ level.object_headers[1].kind = "Actor"
      [] OTHER -> pc = "failed" /\ err.kind = kind /\ err.arg = arg.d /\ pos = 4

GapAboveFour(type_path) ==
  /\ op = "read_object" /\ pc \in {"done", "failed", "panicked"}
  /\ arg.type_path = type_path /\ arg.pl # 0 /\ arg.neg = 0 /\ arg.delta > 4

OtherGapConsumed ==
  (GapAboveFour(T.GameA) /\ arg.tail # "none") =>
    /\ pc = "done"
    /\ pos = ObjectListEnd(arg) + arg.delta
    /\ pos = object.v.start_byte + object.v.size_bytes

\* the guid behind the flag written
GuidWritten(flag) == IF flag = 0 THEN None ELSE Some([i \in 1..16 |-> 65])

\* the value written, as the variant of its kind: a float is its bytes
ValueWritten(a) ==
  [kind |-> CASE a.kind = S.Bool -> "Bool" [] a.kind = S.Int8 -> "Int8"
              [] a.kind = S.Int -> "Int" [] a.kind = S.Int64 -> "Int64"
              [] a.kind = S.UInt32 -> "UInt32" [] a.kind = S.UInt64 -> "UInt64"
              [] a.kind = S.Float -> "Float" [] a.kind = S.Double -> "Double",
   v |-> IF a.kind \in {S.Float, S.Double} THEN WValue(a) ELSE a.v]

LevelNameWritten(a) == IF a.is_last_level THEN S.Level_ \o T.X ELSE T.A

\* C20: in read_level, when the declared object count k is above the number
\* h of object headers of the level, the call fails with
\* MissingObjectHeader(level name) when the body at index h is reached: h
\* bodies were read and no byte of the next one; the error is returned at
\* no other point.
MissingHeaderAtFirstBodyWithout ==
  /\ (op = "read_level" /\ arg.k > Len(arg.hkinds)
        /\ pc \in {"done", "failed", "panicked"}) =>
       /\ pc = "failed"
       /\ err.kind = "MissingObjectHeader" /\ err.arg = LevelNameWritten(arg)
       /\ level.name = LevelNameWritten(arg)
       /\ Len(level.objects) = Len(arg.hkinds)
       /\ pos = Len(stream) - 4
                  - (arg.k - Len(arg.hkinds)) * Len(WObjectBodyFor("Component"))
  /\ (pc = "failed" /\ err.kind = "MissingObjectHeader") =>
       /\ Len(level.objects) = Len(level.object_headers)
       /\ lvl_loc.num_objects > Len(level.object_headers)

ThirdBodyWithoutHeader ==
  op = "read_level" /\ Len(arg.hkinds) = 2 /\ arg.k = 3 /\ pc = "failed"
    /\ err.kind = "MissingObjectHeader" /\ Len(level.objects) = 2

\* the position behind the reads of read_object in front of its properties
ObjectMetaEnd(a) == 12 + Len(ObjectActorPart(a))

\* C21: in read_object, behind the save version, the 4 opaque bytes, the
\* declared size and, for an actor, the parent reference and the
\* components: when the position is start + declared_size the object is
\* returned with should_be_nulled, no property and no further byte consumed;
\* otherwise a list of properties that ends with the sentinel is read and
\* should_be_nulled stays false.
NulledExactlyAtDeclaredEnd ==
  (op = "read_object" /\ pc # "object") =>
    IF arg.neg = 0 /\ ObjectDeclared(arg) = Len(ObjectActorPart(arg))
    THEN /\ pc = "done"
         /\ object.v.should_be_nulled
         /\ object.v.properties = <<>>
         /\ pos = ObjectMetaEnd(arg)
    ELSE /\ ~object.v.should_be_nulled
         /\ pc = "done" =>
              /\ NamesOf(object.v.properties) = PropListSamples[arg.pl].lists[1]
              /\ pos >= ObjectListEnd(arg)

NulledActorReturned ==
  op = "read_object" /\ arg.pl = 0 /\ arg.kind = "Actor" /\ arg.tail = "typed"
    /\ pc = "done" /\ object.v.should_be_nulled /\ pos = ObjectMetaEnd(arg)

\* C22: for an array named mFogOfWarRawData with the element type Byte and
\* the declared count n, read_array_property consumes exactly the n bytes of
\* the elements and stores n / 4 elements, the k-th of them the third byte
\* of the k-th group of 4 bytes.
FogOfWarConsumesDeclared ==
  (op = "read_property" /\ arg.case = "fog" /\ arg.name = S.mFogOfWarRawData
     /\ pc # "property") =>
    /\ pc = "done"
    /\ pos = Len(stream) - Len(WNone)
    /\ Len(prop.v.value.v.elements) = arg.n \div 4
    /\ \A k \in 1..(arg.n \div 4) :
         prop.v.value.v.elements[k] = [kind |-> "Byte", v |-> FogBytes(arg.n)[4 * (k - 1) + 3]]

\* the tag without the "Property" that it ends with
WithoutTrailingProperty(tag) ==
  IF Len(tag) >= Len(S.Property)
       /\ SubSeq(tag, Len(tag) - Len(S.Property) + 1, Len(tag)) = S.Property
  THEN SubSeq(tag, 1, Len(tag) - Len(S.Property))
  ELSE tag

\* C23: the type stored on a property that was decoded, and the element
\* type stored on an array or a set, is the type-tag of the stream with
\* only the "Property" at its end removed: a "Property" elsewhere in the
\* tag stays, and the tag "PropertyInt" is not taken as "Int".
OnlyTrailingPropertyStripped ==
  /\ (op = "read_property" /\ arg.case = "tag" /\ pc = "done") =>
       prop.v.type = WithoutTrailingProperty(arg.tag)
  /\ (op = "read_property" /\ arg.case = "container" /\ pc = "done"
        /\ arg.container \in {"Array", "Set"}) =>
       prop.v.value.v.type = WithoutTrailingProperty(arg.etype)

\* C24: read_map_property on a map with the value type Object under the
\* parent type "/BuildGunUtilities/BGU_Subsystem.BGU_Subsystem_C" and a
\* declared count n >= 1 reads the key of the first pair, then four f32 and
\* one string into unk_float_1 .. unk_float_4 and unk_str_1, and leaves the
\* loop: it returns right behind the first pair whatever n is, and the map
\* holds at most one pair.
BGUObjectMap(a) ==
  a.case = "map" /\ a.vtype = S.Object /\ a.parent = Some(S.BGU_Subsystem_C) /\ a.n >= 1
ScratchFloat(v) == Some([kind |-> "Float", v |-> EncI32(v)])
BGUObjectValueEndsLoop ==
  (op = "read_property" /\ BGUObjectMap(arg) /\ pc # "property") =>
    /\ pc = "done"
    /\ pos = MapPairsStart(arg) + Len(WMapPair(arg, 1))
    /\ prop.v.value.v.unk_float_1 = ScratchFloat(11)
    /\ prop.v.value.v.unk_float_2 = ScratchFloat(21)
    /\ prop.v.value.v.unk_float_3 = ScratchFloat(31)
    /\ prop.v.value.v.unk_float_4 = ScratchFloat(41)
    /\ prop.v.value.v.unk_str_1 = Some(T.Hi)
    /\ Len(prop.v.value.v.keys) <= 1
    /\ Len(prop.v.value.v.values) <= 1

ThreePairsDeclaredOneRead ==
  op = "read_property" /\ BGUObjectMap(arg) /\ arg.n = 3 /\ pc = "done"
    /\ pos = MapPairsStart(arg) + Len(WMapPair(arg, 1))
    /\ pos + 2 * Len(WMapPair(arg, 1)) + Len(WNone) = Len(stream)
    /\ prop.v.value.v.unk_str_1 = Some(T.Hi)

\* C25: the key of a map with the key type Struct is a 3 x f64 vector under
\* the name "Destroyed_Foliage_Transform" whatever the parent type is; else
\* a 3 x f32 vector under the parent type of the BGU subsystem whatever the
\* name is; else a 3 x i32 vector under the names mSaveData and
\* mUnresolvedSaveData; else a property list up to its sentinel.  A map
\* whose keys are written in these shapes is read to its end, with every
\* key of the shape and of the numbers written.
StructKeyMap(a) ==
  a.case = "map" /\ a.ktype = S.Struct /\ a.n >= 1 /\ ~BGUObjectMap(a)
KeyAsWritten(key, shape, i) ==
  /\ key.kind = shape
  /\ CASE shape = "DoubleVector" ->
            key.v = [x |-> EncLE(i, 8), y |-> EncLE(i, 8), z |-> EncLE(i, 8)]
       [] shape = "FloatVector" ->
            key.v = [x |-> EncI32(i), y |-> EncI32(i), z |-> EncI32(i)]
       [] shape = "IntVector" -> key.v = [x |-> i, y |-> i, z |-> i]
       [] OTHER -> NamesOf(key.v) = <<T.B>>
StructKeyShapeInOrder ==
  (op = "read_property" /\ StructKeyMap(arg) /\ pc # "property") =>
    /\ pc = "done"
    /\ pos = Len(stream) - Len(WNone)
    /\ Len(prop.v.value.v.keys) = arg.n
    /\ \A i \in 1..arg.n :
         KeyAsWritten(prop.v.value.v.keys[i], StructKeyShape(arg.name, arg.parent), i)

DoubleVectorKeyUnderBGU ==
  op = "read_property" /\ StructKeyMap(arg) /\ pc = "done" /\ arg.n = 2
    /\ arg.name = S.Destroyed_Foliage_Transform /\ arg.parent = Some(S.BGU_Subsystem_C)
    /\ prop.v.value.v.keys[2].kind = "DoubleVector"

\* C26: a map that read_map_property returns for a declared count n >= 0
\* has as many keys as values and at most n of them; its i-th key and its
\* i-th value are those of the i-th pair of the stream; the pair at which
\* the value arm leaves the loop adds no key and no value.
PairKeyAsWritten(key, a, i) ==
  IF a.ktype = S.Int THEN key = [kind |-> "Int", v |-> i]
  ELSE KeyAsWritten(key, StructKeyShape(a.name, a.parent), i)
PairValueAsWritten(value, a, i) ==
  IF a.vtype = S.Int THEN value = [kind |-> "Int", v |-> 10 + i]
  ELSE value.kind = "Object" /\ value.v.path_name = T.B
KeysAndValuesPaired ==
  (op = "read_property" /\ arg.case = "map" /\ pc = "done") =>
    /\ Len(prop.v.value.v.keys) = Len(prop.v.value.v.values)
    /\ Len(prop.v.value.v.keys) <= arg.n
    /\ \A i \in 1..Len(prop.v.value.v.keys) :
         /\ PairKeyAsWritten(prop.v.value.v.keys[i], arg, i)
         /\ PairValueAsWritten(prop.v.value.v.values[i], arg, i)
    /\ BGUObjectMap(arg) => prop.v.value.v.keys = <<>> /\ prop.v.value.v.values = <<>>

ThreePairsInOrder ==
  op = "read_property" /\ arg.case = "map" /\ pc = "done" /\ arg.n = 3
    /\ arg.ktype = S.Int /\ arg.vtype = S.Int
    /\ prop.v.value.v.keys = <<[kind |-> "Int", v |-> 1], [kind |-> "Int", v |-> 2],
                                [kind |-> "Int", v |-> 3]>>
    /\ prop.v.value.v.values = <<[kind |-> "Int", v |-> 11], [kind |-> "Int", v |-> 12],
                                  [kind |-> "Int", v |-> 13]>>

\* C27: when read_map_property meets a key type that it does not know
\* while it reads a pair, it fails with UnknownMapKeyType carrying the key
\* type of the map with its "Property" removed, not the value type.
UnknownKeyTypeCarried ==
  (op = "read_property" /\ arg.case = "container" /\ arg.container = "MapKey"
     /\ arg.etype = Tagged(T.Foo) /\ arg.count >= 1 /\ pc # "property") =>
    /\ pc = "failed"
    /\ err.kind = "UnknownMapKeyType"
    /\ err.arg = T.Foo

\* C28: over a stream on which read_length_prefixed_string returns a
\* string, seek_length_prefixed_string started at the same offset ends at
\* the position where read_length_prefixed_string ends, for a positive, a
\* zero and a negative length prefix.
SeekEndsWhereReadEnds ==
  (op = "seek_length_prefixed_string" /\ pc # "seek_string"
     /\ read_length_prefixed_string(stream, 0).ok) =>
    /\ pc = "done"
    /\ pos = read_length_prefixed_string(stream, 0).pos

\* C29: read_chunks ends on every file.  On a whole file it returns the
\* chunks in the order of the stream with the position at or beyond the stop
\* byte; on a file whose last chunk has lost bytes of its preamble or of its
\* body it fails with a read error.
ChunkBodies(a) == [k \in 1..Len(a.sizes) |-> [i \in 1..a.sizes[k] |-> 10 * k + i]]
CutChunkIsReadError ==
  (op = "read_chunks" /\ pc # "file_chunks") =>
    IF arg.cut > 0
    THEN pc = "failed" /\ err.kind = "Read"
    ELSE pc = "done" /\ pos >= file.file_size_bytes /\ file.chunks = ChunkBodies(arg)

\* C30: for each of the history types 0, 1, 3, 10, 11 and 255 the
\* TextProperty that read_text_property returns carries the history variant
\* of the type, never the default variant None; for 1 and 3 the variant
\* holds the source-format Text and the arguments that were decoded.
HistoryVariant(h) ==
  CASE h = 0 -> "BaseHistory"
    [] h \in {1, 3} -> "ArgumentHistory"
    [] h = 10 -> "TransformHistory"
    [] h = 11 -> "StringTableEntryHistory"
    [] h = 255 -> "NoneHistory"
HistoryVariantMatchesType ==
  (op = "read_property" /\ arg.case = "text" /\ arg.h # 2 /\ pc # "property") =>
    /\ pc = "done"
    /\ pos = Len(stream) - Len(WNone)
    /\ prop.v.value.v.history_type = arg.h
    /\ prop.v.value.v.value.kind = HistoryVariant(arg.h)
    /\ arg.h \in {1, 3} =>
         /\ prop.v.value.v.value.v.source_format.value.v.value = T.Foo
         /\ Len(prop.v.value.v.value.v.arguments) = arg.nargs

====
